---- MODULE Spec2Model ----
(***************************************************************************)
(* A model of the AI review gateway: the provider registry, the three      *)
(* providers' Review, the prompt/response functions of package prompt, the *)
(* startup in main and the /review handler.                                *)
(*                                                                         *)
(* A Go string is modelled as a sequence of tokens.  Every token stands    *)
(* for a fixed run of characters, and a text is the concatenation of its   *)
(* tokens.  The regular expressions and the JSON decoder of the source are *)
(* modelled on token sequences; the alphabet is chosen so that no pattern  *)
(* of the source can match across or inside a token other than as stated   *)
(* by the token classes below.                                             *)
(***************************************************************************)
EXTENDS Integers, Sequences, FiniteSets, Bags, TLC

(***************************************************************************)
(* Bounds of the model.                                                    *)
(***************************************************************************)
MaxTextLen == 3
MaxRequests == 2
MaxRegistryOps == 3

(***************************************************************************)
(* Token classes.                                                          *)
(***************************************************************************)
\* The token Fence stands for three backticks.
Fence == "FENCE"
JsonLabel == "json"
NL == "\n"
SP == " "
WS == {SP, NL}

\* JSON string literals of the alphabet (the token includes its quotes).
StringLit ==
  { "\"overview\"", "\"Overview\"", "\"issues\"", "\"file\"", "\"line\"",
    "\"column\"", "\"severity\"", "\"category\"", "\"message\"",
    "\"suggestion\"", "\"extra\"", "\"\"", "\"ok\"", "\"a.js\"", "\"m\"",
    "\"bug\"", "\"fix\"", "\"ERROR\"", "\"error\"", "\"Critical\"",
    "\"high\"", "\"warning\"", "\"WARN\"", "\"medium\"", "\"info\"",
    "\"low\"", "\"note\"", "\"information\"", "\"blocker\"", "\" warn \"" }

\* The Go string a JSON string literal decodes to.
Unquote(tok) ==
  CASE tok = "\"overview\"" -> <<"overview">>
    [] tok = "\"Overview\"" -> <<"Overview">>
    [] tok = "\"issues\"" -> <<"issues">>
    [] tok = "\"file\"" -> <<"file">>
    [] tok = "\"line\"" -> <<"line">>
    [] tok = "\"column\"" -> <<"column">>
    [] tok = "\"severity\"" -> <<"severity">>
    [] tok = "\"category\"" -> <<"category">>
    [] tok = "\"message\"" -> <<"message">>
    [] tok = "\"suggestion\"" -> <<"suggestion">>
    [] tok = "\"extra\"" -> <<"extra">>
    [] tok = "\"\"" -> <<>>
    [] tok = "\"ok\"" -> <<"ok">>
    [] tok = "\"a.js\"" -> <<"a.js">>
    [] tok = "\"m\"" -> <<"m">>
    [] tok = "\"bug\"" -> <<"bug">>
    [] tok = "\"fix\"" -> <<"fix">>
    [] tok = "\"ERROR\"" -> <<"ERROR">>
    [] tok = "\"error\"" -> <<"error">>
    [] tok = "\"Critical\"" -> <<"Critical">>
    [] tok = "\"high\"" -> <<"high">>
    [] tok = "\"warning\"" -> <<"warning">>
    [] tok = "\"WARN\"" -> <<"WARN">>
    [] tok = "\"medium\"" -> <<"medium">>
    [] tok = "\"info\"" -> <<"info">>
    [] tok = "\"low\"" -> <<"low">>
    [] tok = "\"note\"" -> <<"note">>
    [] tok = "\"information\"" -> <<"information">>
    [] tok = "\"blocker\"" -> <<"blocker">>
    [] tok = "\" warn \"" -> <<SP, "warn", SP>>

\* JSON number literals of the alphabet: integers, and one that is no integer.
IntLit == {"0", "1", "3", "10", "42"}
NumberLit == IntLit \cup {"3.5"}

\* strconv.Atoi / ParseInt of the leading digits of a number token.
Atoi(tok) ==
  CASE tok = "0" -> 0
    [] tok = "1" -> 1
    [] tok = "3" -> 3
    [] tok = "10" -> 10
    [] tok = "42" -> 42
    [] tok = "3.5" -> 3

\* Tokens that end in "file:" or "path:", in any case.
FileMarker == {"File:", "file:", "path:"}
\* Tokens that end in "line:" or "l:", in any case.
LineMarker == {"Line:", "line:", "L:"}
\* Tokens whose last character is '-' or ':'.
SepTok == {"-", ":"} \cup FileMarker \cup LineMarker
\* Tokens that begin with '#'.
HeadingTok == {"#", "##"}
\* Words of prose: neither whitespace, JSON, a marker nor a separator.
WordTok == {"LGTM", "app.py", "missing", "check", "Summary"}

(***************************************************************************)
(* strings.TrimSpace, strings.ToUpper, strings.Split on "\n".              *)
(***************************************************************************)
RECURSIVE SkipWS(_, _)
\* The first index >= i of t that holds no whitespace token (Len(t)+1 if none).
SkipWS(t, i) ==
  IF i <= Len(t) /\ t[i] \in WS THEN SkipWS(t, i + 1) ELSE i

RECURSIVE SkipWSBack(_, _)
SkipWSBack(t, j) ==
  IF j >= 1 /\ t[j] \in WS THEN SkipWSBack(t, j - 1) ELSE j

TrimSpace(s) ==
  LET a == SkipWS(s, 1)
      b == SkipWSBack(s, Len(s))
  IN IF a > b THEN <<>> ELSE SubSeq(s, a, b)

UpperTok(tok) ==
  CASE tok = "error" -> "ERROR"
    [] tok = "Critical" -> "CRITICAL"
    [] tok = "high" -> "HIGH"
    [] tok = "warning" -> "WARNING"
    [] tok = "warn" -> "WARN"
    [] tok = "medium" -> "MEDIUM"
    [] tok = "info" -> "INFO"
    [] tok = "low" -> "LOW"
    [] tok = "note" -> "NOTE"
    [] tok = "information" -> "INFORMATION"
    [] tok = "blocker" -> "BLOCKER"
    [] tok = "ok" -> "OK"
    [] tok = "bug" -> "BUG"
    [] tok = "fix" -> "FIX"
    [] tok = "m" -> "M"
    [] tok = "a.js" -> "A.JS"
    [] OTHER -> tok

ToUpper(s) == [i \in 1..Len(s) |-> UpperTok(s[i])]

RECURSIVE IndexFrom(_, _, _)
\* The first index >= i of t whose token is in set S (Len(t)+1 if none).
IndexFrom(t, S, i) ==
  IF i > Len(t) \/ t[i] \in S THEN i ELSE IndexFrom(t, S, i + 1)

RECURSIVE SplitLines(_, _)
\* strings.Split(text, "\n") from index i on.
SplitLines(t, i) ==
  LET j == IndexFrom(t, {NL}, i)
  IN IF j > Len(t) THEN <<SubSeq(t, i, Len(t))>>
     ELSE <<SubSeq(t, i, j - 1)>> \o SplitLines(t, j + 1)

(***************************************************************************)
(* normalizeSeverity.                                                      *)
(***************************************************************************)
\* normalizeSeverity as it would be with MEDIUM left out of its second case.
normalizeSeverityNoMedium(severity) ==
  IF ToUpper(TrimSpace(severity)) \in {<<"ERROR">>, <<"CRITICAL">>, <<"HIGH">>}
    THEN <<"ERROR">>
  ELSE IF ToUpper(TrimSpace(severity)) \in {<<"WARNING">>, <<"WARN">>}
    THEN <<"WARNING">>
  ELSE <<"INFO">>

\* normalizeSeverity as it would be with ERROR left out of its first case.
normalizeSeverityNoError(severity) ==
  IF ToUpper(TrimSpace(severity)) \in {<<"CRITICAL">>, <<"HIGH">>}
    THEN <<"ERROR">>
  ELSE IF ToUpper(TrimSpace(severity)) \in {<<"WARNING">>, <<"WARN">>, <<"MEDIUM">>}
    THEN <<"WARNING">>
  ELSE <<"INFO">>

\* normalizeSeverity as it would be if a severity it does not know were
\* left as it is.
normalizeSeverityKeepingUnknown(severity) ==
  IF ToUpper(TrimSpace(severity)) \in {<<"ERROR">>, <<"CRITICAL">>, <<"HIGH">>}
    THEN <<"ERROR">>
  ELSE IF ToUpper(TrimSpace(severity)) \in {<<"WARNING">>, <<"WARN">>, <<"MEDIUM">>}
    THEN <<"WARNING">>
  ELSE IF ToUpper(TrimSpace(severity)) \in {<<"INFO">>, <<"INFORMATION">>, <<"LOW">>, <<"NOTE">>}
    THEN <<"INFO">>
  ELSE ToUpper(TrimSpace(severity))

normalizeSeverity(severity) ==
  LET s == ToUpper(TrimSpace(severity))
  IN IF s \in {<<"ERROR">>, <<"CRITICAL">>, <<"HIGH">>} THEN <<"ERROR">>
     ELSE IF s \in {<<"WARNING">>, <<"WARN">>, <<"MEDIUM">>} THEN <<"WARNING">>
     ELSE IF s \in {<<"INFO">>, <<"INFORMATION">>, <<"LOW">>, <<"NOTE">>}
       THEN <<"INFO">>
     ELSE <<"INFO">>

(***************************************************************************)
(* extractJSON: the two regular expressions, on tokens.                    *)
(***************************************************************************)
\* The index after an opening fence at i and its optional json label.
AfterFenceLabel(t, i) ==
  IF i + 1 <= Len(t) /\ t[i + 1] = JsonLabel THEN i + 2 ELSE i + 1

\* The '}' tokens that can end the group of codeBlockRegex opened at '{' b:
\* a '}' followed by optional whitespace and a fence.
FenceClosers(t, b) ==
  { c \in (b + 1)..Len(t) :
      /\ t[c] = "}"
      /\ LET d == SkipWS(t, c + 1) IN d <= Len(t) /\ t[d] = Fence }

\* The indices at which codeBlockRegex matches: a fence, an optional json
\* label, whitespace, '{', and a closer.
CodeBlockStarts(t) ==
  { i \in 1..Len(t) :
      /\ t[i] = Fence
      /\ LET b == SkipWS(t, AfterFenceLabel(t, i))
         IN b <= Len(t) /\ t[b] = "{" /\ FenceClosers(t, b) # {} }

Min(S) == CHOOSE x \in S : \A y \in S : x <= y
Max(S) == CHOOSE x \in S : \A y \in S : x >= y

\* matches[1] of codeBlockRegex: leftmost match, non-greedy group.
CodeBlockGroup(t) ==
  LET i == Min(CodeBlockStarts(t))
      b == SkipWS(t, AfterFenceLabel(t, i))
      c == Min(FenceClosers(t, b))
  IN SubSeq(t, b, c)

\* The '{' tokens at which jsonRegex matches: followed, in this order, by an
\* "overview" literal, an "issues" literal and a '}'.
RawJSONStarts(t) ==
  { i \in 1..Len(t) :
      /\ t[i] = "{"
      /\ \E a \in (i + 1)..Len(t) :
           /\ t[a] = "\"overview\""
           /\ \E b \in (a + 1)..Len(t) :
                /\ t[b] = "\"issues\""
                /\ \E c \in (b + 1)..Len(t) : t[c] = "}" }

\* matches[1] of jsonRegex: leftmost start, greedy to the last '}'.
RawJSONGroup(t) ==
  LET i == Min(RawJSONStarts(t))
      c == Max({ j \in 1..Len(t) : t[j] = "}" })
  IN SubSeq(t, i, c)

\* extractJSON as it would be if it looked for raw JSON first.
extractJSONRawFirst(text) ==
  IF RawJSONStarts(text) # {} THEN RawJSONGroup(text)
  ELSE IF CodeBlockStarts(text) # {} THEN CodeBlockGroup(text)
  ELSE text

extractJSON(text) ==
  IF CodeBlockStarts(text) # {} THEN CodeBlockGroup(text)
  ELSE IF RawJSONStarts(text) # {} THEN RawJSONGroup(text)
  ELSE text

(***************************************************************************)
(* json.Unmarshal into rawResponse: the syntax check of the whole input,   *)
(* then the decoding of the value into the struct.                         *)
(***************************************************************************)
\* A JSON value: k is its kind, s a string's content, lit a number's token,
\* m an object's members in order, e an array's elements.
JVal(k, s, lit, m, e) == [k |-> k, s |-> s, lit |-> lit, m |-> m, e |-> e]
JNull == JVal("null", <<>>, "", <<>>, <<>>)
ParseFail == [ok |-> FALSE, v |-> JNull, next |-> 0]
Parsed(v, next) == [ok |-> TRUE, v |-> v, next |-> next]

RECURSIVE ParseValue(_, _)
RECURSIVE ParseMembers(_, _, _)
RECURSIVE ParseElements(_, _, _)

\* The JSON value that starts at token i of t.
ParseValue(t, i) ==
  IF i > Len(t) THEN ParseFail
  ELSE IF t[i] \in StringLit
    THEN Parsed(JVal("string", Unquote(t[i]), "", <<>>, <<>>), i + 1)
  ELSE IF t[i] \in NumberLit
    THEN Parsed(JVal("number", <<>>, t[i], <<>>, <<>>), i + 1)
  ELSE IF t[i] = "null" THEN Parsed(JNull, i + 1)
  ELSE IF t[i] \in {"true", "false"}
    THEN Parsed(JVal("bool", <<>>, "", <<>>, <<>>), i + 1)
  ELSE IF t[i] = "{"
    THEN LET j == SkipWS(t, i + 1)
         IN IF j <= Len(t) /\ t[j] = "}"
              THEN Parsed(JVal("object", <<>>, "", <<>>, <<>>), j + 1)
              ELSE ParseMembers(t, j, <<>>)
  ELSE IF t[i] = "["
    THEN LET j == SkipWS(t, i + 1)
         IN IF j <= Len(t) /\ t[j] = "]"
              THEN Parsed(JVal("array", <<>>, "", <<>>, <<>>), j + 1)
              ELSE ParseElements(t, j, <<>>)
  ELSE ParseFail

\* The members of an object from the key at token i on; acc holds the
\* members read so far.
ParseMembers(t, i, acc) ==
  IF i > Len(t) \/ t[i] \notin StringLit THEN ParseFail
  ELSE LET c == SkipWS(t, i + 1)
       IN IF c > Len(t) \/ t[c] # ":" THEN ParseFail
          ELSE LET r == ParseValue(t, SkipWS(t, c + 1))
               IN IF ~r.ok THEN ParseFail
                  ELSE LET acc2 == Append(acc, [key |-> Unquote(t[i]), val |-> r.v])
                           d == SkipWS(t, r.next)
                       IN IF d > Len(t) THEN ParseFail
                          ELSE IF t[d] = "}"
                            THEN Parsed(JVal("object", <<>>, "", acc2, <<>>), d + 1)
                          ELSE IF t[d] = ","
                            THEN ParseMembers(t, SkipWS(t, d + 1), acc2)
                          ELSE ParseFail

\* The elements of an array from the value at token i on.
ParseElements(t, i, acc) ==
  LET r == ParseValue(t, i)
  IN IF ~r.ok THEN ParseFail
     ELSE LET acc2 == Append(acc, r.v)
              d == SkipWS(t, r.next)
          IN IF d > Len(t) THEN ParseFail
             ELSE IF t[d] = "]"
               THEN Parsed(JVal("array", <<>>, "", <<>>, acc2), d + 1)
             ELSE IF t[d] = ","
               THEN ParseElements(t, SkipWS(t, d + 1), acc2)
             ELSE ParseFail

\* The value r read from data is all of data but whitespace.
WholeInput(data, r) ==
  IF r.ok /\ SkipWS(data, r.next) > Len(data) THEN r ELSE ParseFail

\* The whole input is one JSON value between optional whitespace.
ParseJSON(data) == WholeInput(data, ParseValue(data, SkipWS(data, 1)))

\* The struct field a key selects: the match is case-insensitive.
FoldName(key) ==
  IF key = <<"Overview">> THEN <<"overview">> ELSE key

Decoded(val) == [ok |-> TRUE, val |-> val]
\* An UnmarshalTypeError: the decoder goes on, and Unmarshal returns the error.
TypeError(val) == [ok |-> FALSE, val |-> val]

\* The struct cur with field set to what d decoded; an error of d stays.
SetField(cur, field, d) == [ok |-> d.ok, val |-> [cur EXCEPT ![field] = d.val]]

\* The slice acc with what d decoded appended.
Appended(acc, d) == [ok |-> d.ok, val |-> Append(acc, d.val)]

\* The decoding goes on after d with Rest; the first error is kept.
KeepError(ok, d) == [ok |-> ok /\ d.ok, val |-> d.val]
AndThen(d, Rest(_)) == KeepError(d.ok, Rest(d.val))

\* A JSON value decoded into a Go string field that holds cur.
DecodeString(cur, v) ==
  IF v.k = "null" THEN Decoded(cur)
  ELSE IF v.k = "string" THEN Decoded(v.s)
  ELSE TypeError(cur)

\* A JSON value decoded into a Go int field that holds cur.
DecodeInt(cur, v) ==
  IF v.k = "null" THEN Decoded(cur)
  ELSE IF v.k = "number" /\ v.lit \in IntLit THEN Decoded(Atoi(v.lit))
  ELSE TypeError(cur)

\* The zero value of an element of rawResponse.Issues.
ZeroIssue ==
  [ File |-> <<>>, Line |-> 0, Column |-> 0, Severity |-> <<>>,
    Category |-> <<>>, Message |-> <<>>, Suggestion |-> <<>> ]

\* The issue cur with the field that key f names set from the JSON value v.
DecodeIssueField(cur, f, v) ==
  CASE f = <<"file">> -> SetField(cur, "File", DecodeString(cur.File, v))
    [] f = <<"line">> -> SetField(cur, "Line", DecodeInt(cur.Line, v))
    [] f = <<"column">> -> SetField(cur, "Column", DecodeInt(cur.Column, v))
    [] f = <<"severity">> -> SetField(cur, "Severity", DecodeString(cur.Severity, v))
    [] f = <<"category">> -> SetField(cur, "Category", DecodeString(cur.Category, v))
    [] f = <<"message">> -> SetField(cur, "Message", DecodeString(cur.Message, v))
    [] f = <<"suggestion">> -> SetField(cur, "Suggestion", DecodeString(cur.Suggestion, v))
    [] OTHER -> Decoded(cur)

RECURSIVE DecodeIssueMembers(_, _, _)
\* The members m[i..] of an object decoded, in order, into the issue cur.
DecodeIssueMembers(m, i, cur) ==
  IF i > Len(m) THEN Decoded(cur)
  ELSE AndThen(DecodeIssueField(cur, FoldName(m[i].key), m[i].val),
               LAMBDA val : DecodeIssueMembers(m, i + 1, val))

\* A JSON value decoded into a fresh element of rawResponse.Issues.
DecodeIssue(v) ==
  IF v.k = "null" THEN Decoded(ZeroIssue)
  ELSE IF v.k = "object" THEN DecodeIssueMembers(v.m, 1, ZeroIssue)
  ELSE TypeError(ZeroIssue)

RECURSIVE DecodeIssueElements(_, _, _)
\* The elements e[i..] of an array appended, decoded, to the slice acc.
DecodeIssueElements(e, i, acc) ==
  IF i > Len(e) THEN Decoded(acc)
  ELSE AndThen(Appended(acc, DecodeIssue(e[i])),
               LAMBDA val : DecodeIssueElements(e, i + 1, val))

\* A JSON value decoded into rawResponse.Issues, which holds cur.
DecodeIssues(cur, v) ==
  IF v.k = "null" THEN Decoded(cur)
  ELSE IF v.k = "array" THEN DecodeIssueElements(v.e, 1, <<>>)
  ELSE TypeError(cur)

\* The zero value of rawResponse.
ZeroRawResponse == [Overview |-> <<>>, Issues |-> <<>>]

DecodeResponseField(cur, f, v) ==
  CASE f = <<"overview">> -> SetField(cur, "Overview", DecodeString(cur.Overview, v))
    [] f = <<"issues">> -> SetField(cur, "Issues", DecodeIssues(cur.Issues, v))
    [] OTHER -> Decoded(cur)

RECURSIVE DecodeResponseMembers(_, _, _)
DecodeResponseMembers(m, i, cur) ==
  IF i > Len(m) THEN Decoded(cur)
  ELSE AndThen(DecodeResponseField(cur, FoldName(m[i].key), m[i].val),
               LAMBDA val : DecodeResponseMembers(m, i + 1, val))

\* The parsed input p decoded into rawResponse.
DecodeResponse(p) ==
  IF ~p.ok THEN TypeError(ZeroRawResponse)
  ELSE IF p.v.k = "null" THEN Decoded(ZeroRawResponse)
  ELSE IF p.v.k = "object" THEN DecodeResponseMembers(p.v.m, 1, ZeroRawResponse)
  ELSE TypeError(ZeroRawResponse)

\* json.Unmarshal([]byte(jsonStr), &rawResponse): ok is err == nil, val is
\* rawResponse afterwards.
Unmarshal(jsonStr) == DecodeResponse(ParseJSON(jsonStr))

(***************************************************************************)
(* The results of package models.                                          *)
(***************************************************************************)
Position(line, column) == [Line |-> line, Column |-> column]

Diagnostic(message, path, line, column, severity, code, suggestion) ==
  [ Message |-> message,
    Location |-> [ Path |-> path,
                   Range |-> [ Start |-> Position(line, column),
                               End |-> Position(line, column + 1) ] ],
    Severity |-> severity,
    Code |-> [Value |-> code, URL |-> <<>>],
    Original |-> <<>>,
    Suggestion |-> suggestion ]

AIProviderResponse(overview, diagnostics) ==
  [Overview |-> overview, Diagnostics |-> diagnostics]

\* How a Go call that yields (pointer, error) ends: result is <<>> for a nil
\* pointer and <<r>> for a pointer to r; err is the error's message, NoError
\* for a nil error; panicked is set when the call panics instead of returning.
NoError == <<>>
Return(r) == [result |-> <<r>>, err |-> NoError, panicked |-> FALSE]
ReturnError(e) == [result |-> <<>>, err |-> e, panicked |-> FALSE]
Panic == [result |-> <<>>, err |-> NoError, panicked |-> TRUE]

(***************************************************************************)
(* parseUnstructuredResponse: fileLineRegex on tokens, then the overview.  *)
(***************************************************************************)
NoNL(t, a, b) == \A x \in a..b : t[x] # NL

\* Where group 3 can start after the separator at s: after some of the
\* whitespace that follows, on a token that is no newline.
MessageStarts(t, s) ==
  { m \in (s + 1)..SkipWS(t, s + 1) : m <= Len(t) /\ t[m] # NL }

\* The separators [-:] that can follow the digits at d on the same line.
Separators(t, d) ==
  { s \in (d + 1)..Len(t) :
      t[s] \in SepTok /\ NoNL(t, d + 1, s - 1) /\ MessageStarts(t, s) # {} }

\* The line markers that can follow a path ending at k on the same line.
LineMarks(t, k) ==
  { q \in (k + 1)..Len(t) :
      /\ t[q] \in LineMarker
      /\ NoNL(t, k + 1, q - 1)
      /\ LET d == SkipWS(t, q + 1)
         IN d <= Len(t) /\ t[d] \in NumberLit /\ Separators(t, d) # {} }

\* The ends of group 1, which starts at p: within the run of tokens that are
\* no whitespace.
PathEnds(t, p) ==
  { k \in p..(IndexFrom(t, WS, p) - 1) : LineMarks(t, k) # {} }

\* fileLineRegex matches at index i.
FileLineMatches(t, i) ==
  /\ t[i] \in FileMarker
  /\ LET p == SkipWS(t, i + 1) IN p <= Len(t) /\ PathEnds(t, p) # {}

\* The submatches of the match at i, and the index of its last token.
FileLineMatch(t, i) ==
  LET p == SkipWS(t, i + 1)
      k == Max(PathEnds(t, p))
      q == Min(LineMarks(t, k))
      d == SkipWS(t, q + 1)
      s == Min(Separators(t, d))
      m == Max(MessageStarts(t, s))
      nl == IndexFrom(t, {NL}, m)
  IN [ path |-> SubSeq(t, p, k),
       line |-> t[d],
       message |-> SubSeq(t, m, nl - 1),
       end |-> IF nl <= Len(t) THEN nl ELSE Len(t) ]

RECURSIVE FindAllFileLine(_, _)
\* fileLineRegex.FindAllStringSubmatch(text, -1) from index from on.
FindAllFileLine(t, from) ==
  LET starts == { i \in from..Len(t) : FileLineMatches(t, i) }
  IN IF starts = {} THEN <<>>
     ELSE LET mt == FileLineMatch(t, Min(starts))
          IN <<mt>> \o FindAllFileLine(t, mt.end + 1)

RECURSIVE FirstParagraph(_, _, _)
\* The loop over the lines: the first line that is not empty after trimming
\* and does not start with '#', or dflt.
FirstParagraph(lines, i, dflt) ==
  IF i > Len(lines) THEN dflt
  ELSE LET line == TrimSpace(lines[i])
       IN IF line # <<>> /\ line[1] \notin HeadingTok THEN line
          ELSE FirstParagraph(lines, i + 1, dflt)

DefaultOverview == <<"AI", SP, "code", SP, "review", SP, "completed">>

\* MatchDiagnostic as it would be without the trimming of the message.
MatchDiagnosticUntrimmed(match) ==
  Diagnostic(match.message, match.path, Atoi(match.line), 1,
             <<"INFO">>, <<"ai-review">>, <<>>)

\* The body of the loop over the matches.
MatchDiagnostic(match) ==
  Diagnostic(TrimSpace(match.message), match.path, Atoi(match.line), 1,
             <<"INFO">>, <<"ai-review">>, <<>>)

RECURSIVE FirstLine(_, _, _)
\* The first line that is not empty after trimming, or dflt.
FirstLine(lines, i, dflt) ==
  IF i > Len(lines) THEN dflt
  ELSE IF TrimSpace(lines[i]) # <<>> THEN TrimSpace(lines[i])
  ELSE FirstLine(lines, i + 1, dflt)

\* UnstructuredResponse as it would be if a heading could be the overview.
UnstructuredResponseAnyLine(text, matches) ==
  Return(AIProviderResponse(
    IF Len(matches) = 0
      THEN FirstLine(SplitLines(text, 1), 1, DefaultOverview)
      ELSE DefaultOverview,
    [i \in 1..Len(matches) |-> MatchDiagnostic(matches[i])]))

\* parseUnstructuredResponse from the loop over the matches on.
UnstructuredResponse(text, matches) ==
  Return(AIProviderResponse(
    IF Len(matches) = 0
      THEN FirstParagraph(SplitLines(text, 1), 1, DefaultOverview)
      ELSE DefaultOverview,
    [i \in 1..Len(matches) |-> MatchDiagnostic(matches[i])]))

parseUnstructuredResponse(text) ==
  UnstructuredResponse(text, FindAllFileLine(text, 1))

(***************************************************************************)
(* ParseAIResponse.                                                        *)
(***************************************************************************)
\* IssueDiagnostic as it would be without the default of the column.
IssueDiagnosticNoDefault(issue) ==
  Diagnostic(issue.Message, issue.File, issue.Line, issue.Column,
             normalizeSeverity(issue.Severity), issue.Category, issue.Suggestion)

\* The body of the loop over rawResponse.Issues.
IssueDiagnostic(issue) ==
  LET severity == normalizeSeverity(issue.Severity)
      column == IF issue.Column = 0 THEN 1 ELSE issue.Column
  IN Diagnostic(issue.Message, issue.File, issue.Line, column, severity,
                issue.Category, issue.Suggestion)

RECURSIVE Distinct(_, _)
\* The elements of seq from index i on that do not occur before.
Distinct(seq, i) ==
  IF i > Len(seq) THEN <<>>
  ELSE (IF \E j \in 1..(i - 1) : seq[j] = seq[i] THEN <<>> ELSE <<seq[i]>>)
         \o Distinct(seq, i + 1)

\* ConvertResponse as it would be if an issue emitted twice were reported
\* once.
ConvertResponseDistinct(responseText, u) ==
  IF ~u.ok THEN parseUnstructuredResponse(responseText)
  ELSE Return(AIProviderResponse(
         u.val.Overview,
         [i \in 1..Len(Distinct(u.val.Issues, 1)) |->
            IssueDiagnostic(Distinct(u.val.Issues, 1)[i])]))

\* ConvertResponse as it would be with the error of json.Unmarshal returned to
\* the caller.
ConvertResponseStrict(responseText, u) ==
  IF ~u.ok THEN ReturnError(<<"failed to parse AI response">>)
  ELSE Return(AIProviderResponse(
         u.val.Overview,
         [i \in 1..Len(u.val.Issues) |-> IssueDiagnostic(u.val.Issues[i])]))

\* ParseAIResponse from the return of json.Unmarshal on: u.ok is err == nil,
\* u.val is rawResponse.
ConvertResponse(responseText, u) ==
  IF ~u.ok THEN parseUnstructuredResponse(responseText)
  ELSE Return(AIProviderResponse(
         u.val.Overview,
         [i \in 1..Len(u.val.Issues) |-> IssueDiagnostic(u.val.Issues[i])]))

ParseAIResponse(responseText) ==
  ConvertResponse(responseText, Unmarshal(extractJSON(responseText)))

(***************************************************************************)
(* Registry.                                                               *)
(***************************************************************************)
\* The providers map of a new Registry.
NewRegistry == [n \in {} |-> <<>>]

\* Register as it would be if a name already registered kept its provider.
RegisterKeepFirst(r, name, provider) ==
  [n \in DOMAIN r \cup {name} |-> IF n \in DOMAIN r THEN r[n] ELSE provider]

\* Register as it would be if it made a new map for the one name.
RegisterAlone(r, name, provider) == [n \in {name} |-> provider]

Register(r, name, provider) ==
  [n \in DOMAIN r \cup {name} |-> IF n = name THEN provider ELSE r[n]]

Get(r, name) ==
  IF name \notin DOMAIN r
    THEN ReturnError(<<"provider '", name, "' not found">>)
    ELSE Return(r[name])

RECURSIVE Orderings(_)
\* The sequences that hold every element of S once.
Orderings(S) ==
  IF S = {} THEN {<<>>}
  ELSE UNION { { <<x>> \o o : o \in Orderings(S \ {x}) } : x \in S }

\* The slices List can return: the names, in whatever order the map iterates.
List(r) == Orderings(DOMAIN r)

(***************************************************************************)
(* The providers.                                                          *)
(***************************************************************************)
NewGeminiProvider(apiKey) == [type |-> "GeminiProvider", apiKey |-> apiKey]
NewOpenAIProvider(apiKey) == [type |-> "OpenAIProvider", apiKey |-> apiKey]
NewClaudeProvider(apiKey) == [type |-> "ClaudeProvider", apiKey |-> apiKey]

Name(p) ==
  CASE p.type = "GeminiProvider" -> "google"
    [] p.type = "OpenAIProvider" -> "openai"
    [] p.type = "ClaudeProvider" -> "anthropic"

SupportedModels(p) ==
  CASE p.type = "GeminiProvider" ->
         <<"gemini-2.0-flash", "gemini-1.5-pro", "gemini-1.5-flash", "gemini-pro">>
    [] p.type = "OpenAIProvider" ->
         <<"gpt-4", "gpt-4-turbo", "gpt-4o", "gpt-3.5-turbo">>
    [] p.type = "ClaudeProvider" ->
         <<"claude-3-5-sonnet-20241022", "claude-3-opus-20240229",
           "claude-3-sonnet-20240229", "claude-3-haiku-20240307">>

\* The model a provider uses when the request names none.
HardcodedDefault(p) ==
  CASE p.type = "GeminiProvider" -> "gemini-2.0-flash"
    [] p.type = "OpenAIProvider" -> "gpt-4o"
    [] p.type = "ClaudeProvider" -> "claude-3-5-sonnet-20241022"

\* VendorCall as it would be if a model that the provider does not list were
\* replaced by the default.
VendorCallSupportedOnly(p, request) ==
  [ vendor |-> Name(p),
    model |-> IF request.AIModel \in { SupportedModels(p)[i] : i \in 1..4 }
                THEN request.AIModel
                ELSE HardcodedDefault(p),
    diff |-> request.GitDiff ]

\* Review up to its vendor call: the call it issues, with the diff of the
\* request its prompts are generated from.
VendorCall(p, request) ==
  [ vendor |-> Name(p),
    model |-> IF request.AIModel = "" THEN HardcodedDefault(p)
              ELSE request.AIModel,
    diff |-> request.GitDiff ]

\* What Review did after the vendor call: how it ended, and the texts it
\* handed to ParseAIResponse.
Ended(ret, texts) == [ret |-> ret, parsed |-> texts]
\* ParseAndReturn as it would be if text without a JSON object were refused.
ParseAndReturnStrict(responseText) ==
  IF ~Unmarshal(extractJSON(responseText)).ok
    THEN Ended(ReturnError(<<"no JSON found in response">>), <<responseText>>)
    ELSE Ended(ParseAIResponse(responseText), <<responseText>>)

ParseAndReturn(responseText) ==
  Ended(ParseAIResponse(responseText), <<responseText>>)

RECURSIVE TextOfParts(_, _)
\* The loop over Content.Parts: the texts of the parts that are genai.Text.
TextOfParts(parts, i) ==
  IF i > Len(parts) THEN <<>>
  ELSE (IF parts[i].isText THEN parts[i].text ELSE <<>>)
         \o TextOfParts(parts, i + 1)

\* GeminiReview as it would be if the error of GenerateContent were dropped
\* and the empty text parsed.
GeminiReviewLenient(resp) ==
  IF resp.err # NoError \/ Len(resp.Candidates) = 0
    THEN ParseAndReturn(<<>>)
  ELSE IF resp.Candidates[1].Content = <<>>
    THEN Ended(Panic, <<>>)
  ELSE ParseAndReturn(TextOfParts(resp.Candidates[1].Content[1].Parts, 1))

\* GeminiProvider.Review from the return of GenerateContent on.  Content is
\* a pointer (*genai.Content): a candidate without content, such as a blocked
\* one, holds nil, and reading its Parts panics.
GeminiReview(resp) ==
  IF resp.err # NoError
    THEN Ended(ReturnError(<<"failed to generate content: ">> \o resp.err), <<>>)
  ELSE IF Len(resp.Candidates) = 0
    THEN Ended(ReturnError(<<"no response candidates from Gemini">>), <<>>)
  ELSE IF resp.Candidates[1].Content = <<>>
    THEN Ended(Panic, <<>>)
  ELSE ParseAndReturn(TextOfParts(resp.Candidates[1].Content[1].Parts, 1))

\* OpenAIProvider.Review from the return of CreateChatCompletion on.
OpenAIReview(resp) ==
  IF resp.err # NoError
    THEN Ended(ReturnError(<<"failed to create chat completion: ">> \o resp.err), <<>>)
  ELSE IF Len(resp.Choices) = 0
    THEN Ended(ReturnError(<<"no response from OpenAI">>), <<>>)
  ELSE ParseAndReturn(resp.Choices[1].Message.Content)

StatusOK == 200

\* ClaudeProvider.Review from the return of httpClient.Do on.  resp.body is
\* what json.Unmarshal makes of the body: <<>> when it fails.
ClaudeReview(resp) ==
  IF resp.err # NoError
    THEN Ended(ReturnError(<<"failed to send request: ">> \o resp.err), <<>>)
  ELSE IF resp.readErr # NoError
    THEN Ended(ReturnError(<<"failed to read response: ">> \o resp.readErr), <<>>)
  ELSE IF resp.StatusCode # StatusOK
    THEN Ended(ReturnError(<<"API request failed with status">>), <<>>)
  ELSE IF resp.body = <<>>
    THEN Ended(ReturnError(<<"failed to unmarshal response">>), <<>>)
  ELSE IF resp.body[1].Error # <<>>
    THEN Ended(ReturnError(<<"Claude API error: ">> \o resp.body[1].Error[1].Message), <<>>)
  ELSE IF Len(resp.body[1].Content) = 0
    THEN Ended(ReturnError(<<"no content in response">>), <<>>)
  ELSE ParseAndReturn(resp.body[1].Content[1].Text)

\* Review of the provider that issued call, from the vendor's reply on.
Review(call, resp) ==
  CASE call.vendor = "google" -> GeminiReview(resp)
    [] call.vendor = "openai" -> OpenAIReview(resp)
    [] call.vendor = "anthropic" -> ClaudeReview(resp)

(***************************************************************************)
(* The vendors: what a vendor call can come back with.                     *)
(***************************************************************************)
TextJSON ==
  << "{", "\"overview\"", ":", "\"ok\"", ",", "\"issues\"", ":", "[", "{",
     "\"file\"", ":", "\"a.js\"", ",", "\"line\"", ":", "3", ",",
     "\"severity\"", ":", "\"high\"", ",", "\"message\"", ":", "\"m\"", "}",
     "]", "}" >>
TextFenced ==
  << "LGTM", NL, Fence, JsonLabel, NL, "{", "\"overview\"", ":", "\"ok\"", ",",
     "\"issues\"", ":", "[", "]", "}", NL, Fence >>
TextProse == <<"#", SP, "Summary", NL, "LGTM">>
TextFileLine ==
  << "File:", SP, "app.py", SP, "Line:", SP, "10", SP, "-", SP, "missing",
     SP, "check" >>
TextMalformed == <<"{", "\"overview\"", ":">>
TextWrongShape == <<"{", "\"overview\"", ":", "3", ",", "\"issues\"", ":", "[", "]", "}">>

VendorTexts ==
  {<<>>, TextJSON, TextFenced, TextProse, TextFileLine, TextMalformed,
   TextWrongShape}

\* The errors of a context that is done.
DeadlineExceeded == <<"context deadline exceeded">>
Canceled == <<"context canceled">>
NetworkError == <<"connection refused">>

GenaiText(t) == [isText |-> TRUE, text |-> t]
GenaiBlob == [isText |-> FALSE, text |-> <<>>]

\* The parts a Gemini candidate's content can hold.
GeminiParts ==
  {<<>>, <<GenaiBlob>>}
    \cup { <<GenaiText(t)>> : t \in VendorTexts }
    \cup { <<GenaiText(SubSeq(TextJSON, 1, 8)), GenaiBlob,
             GenaiText(SubSeq(TextJSON, 9, Len(TextJSON)))>> }

\* What GenerateContent returns under a context whose error is ctxErr.
GeminiReplies(ctxErr) ==
  IF ctxErr # NoError THEN {[err |-> ctxErr, Candidates |-> <<>>]}
  ELSE {[err |-> NetworkError, Candidates |-> <<>>]}
         \cup {[err |-> NoError, Candidates |-> <<>>]}
         \cup {[err |-> NoError, Candidates |-> <<[Content |-> <<>>]>>]}
         \cup { [err |-> NoError, Candidates |-> <<[Content |-> <<[Parts |-> ps]>>]>>] :
                  ps \in GeminiParts }

\* What CreateChatCompletion returns.
OpenAIReplies(ctxErr) ==
  IF ctxErr # NoError THEN {[err |-> ctxErr, Choices |-> <<>>]}
  ELSE {[err |-> NetworkError, Choices |-> <<>>]}
         \cup {[err |-> NoError, Choices |-> <<>>]}
         \cup { [err |-> NoError, Choices |-> <<[Message |-> [Content |-> t]]>>] :
                  t \in VendorTexts }

ClaudeReply(err, readErr, status, body) ==
  [err |-> err, readErr |-> readErr, StatusCode |-> status, body |-> body]
ClaudeBody(error, content) == <<[Error |-> error, Content |-> content]>>

\* What httpClient.Do and the reading of the body come to.
ClaudeReplies(ctxErr) ==
  IF ctxErr # NoError
    THEN { ClaudeReply(ctxErr, NoError, 0, <<>>),
           ClaudeReply(NoError, ctxErr, StatusOK, <<>>) }
  ELSE { ClaudeReply(NetworkError, NoError, 0, <<>>),
         ClaudeReply(NoError, NetworkError, StatusOK, <<>>),
         ClaudeReply(NoError, NoError, 401, ClaudeBody(<<[Message |-> <<"invalid x-api-key">>]>>, <<>>)),
         ClaudeReply(NoError, NoError, 529, <<>>),
         ClaudeReply(NoError, NoError, StatusOK, <<>>),
         ClaudeReply(NoError, NoError, StatusOK, ClaudeBody(<<[Message |-> <<"overloaded">>]>>, <<>>)),
         ClaudeReply(NoError, NoError, StatusOK, ClaudeBody(<<>>, <<>>)) }
         \cup { ClaudeReply(NoError, NoError, StatusOK, ClaudeBody(<<>>, <<[Text |-> t]>>)) :
                  t \in VendorTexts }

\* VendorReplies as it would be if the vendor calls were made without the
\* context.
VendorRepliesIgnoringContext(call, ctxErr) ==
  CASE call.vendor = "google" -> GeminiReplies(NoError)
    [] call.vendor = "openai" -> OpenAIReplies(NoError)
    [] call.vendor = "anthropic" -> ClaudeReplies(NoError)

\* What the vendor call of call can come back with under a context whose
\* error is ctxErr.
VendorReplies(call, ctxErr) ==
  CASE call.vendor = "google" -> GeminiReplies(ctxErr)
    [] call.vendor = "openai" -> OpenAIReplies(ctxErr)
    [] call.vendor = "anthropic" -> ClaudeReplies(ctxErr)

(***************************************************************************)
(* Config.                                                                 *)
(***************************************************************************)
Env(keys, google, openai, anthropic, provider, model) ==
  [ API_KEYS |-> keys, GOOGLE_API_KEY |-> google, OPENAI_API_KEY |-> openai,
    ANTHROPIC_API_KEY |-> anthropic, DEFAULT_AI_PROVIDER |-> provider,
    DEFAULT_AI_MODEL |-> model ]

\* The environments the process can start in.
Environments ==
  { Env(<<>>, "g-key", "", "", "", ""),
    Env(<<SP, ",">>, "g-key", "o-key", "a-key", "", ""),
    Env(<<"k1">>, "", "", "", "", ""),
    Env(<<"k1">>, "g-key", "", "", "", ""),
    Env(<<"k1">>, "", "o-key", "", "", ""),
    Env(<<"k1", ",", SP, "k2">>, "g-key", "", "a-key", "", "gpt-4o"),
    Env(<<"k1", ",", SP, "k2">>, "g-key", "o-key", "a-key", "openai", "gpt-4o") }

getEnv(value, defaultValue) == IF value # "" THEN value ELSE defaultValue

RECURSIVE SplitComma(_, _)
\* strings.Split(keys, ",") from index i on.
SplitComma(t, i) ==
  LET j == IndexFrom(t, {","}, i)
  IN IF j > Len(t) THEN <<SubSeq(t, i, Len(t))>>
     ELSE <<SubSeq(t, i, j - 1)>> \o SplitComma(t, j + 1)

RECURSIVE TrimmedNonEmpty(_, _)
TrimmedNonEmpty(parts, i) ==
  IF i > Len(parts) THEN <<>>
  ELSE LET trimmed == TrimSpace(parts[i])
       IN (IF trimmed # <<>> THEN <<trimmed>> ELSE <<>>)
            \o TrimmedNonEmpty(parts, i + 1)

parseAPIKeys(keys) ==
  IF keys = <<>> THEN <<>> ELSE TrimmedNonEmpty(SplitComma(keys, 1), 1)

Load(env) ==
  [ APIKeys |-> parseAPIKeys(env.API_KEYS),
    GoogleAPIKey |-> env.GOOGLE_API_KEY,
    OpenAIAPIKey |-> env.OPENAI_API_KEY,
    AnthropicAPIKey |-> env.ANTHROPIC_API_KEY,
    DefaultProvider |-> getEnv(env.DEFAULT_AI_PROVIDER, "google"),
    DefaultModel |-> getEnv(env.DEFAULT_AI_MODEL, "gemini-2.0-flash") ]

Validate(c) ==
  IF Len(c.APIKeys) = 0
    THEN <<"at least one API key must be configured via API_KEYS environment variable">>
  ELSE IF c.GoogleAPIKey = "" /\ c.OpenAIAPIKey = "" /\ c.AnthropicAPIKey = ""
    THEN <<"at least one AI provider API key must be configured">>
  ELSE NoError

(***************************************************************************)
(* HandleReview.                                                           *)
(***************************************************************************)
ZeroRequest ==
  [ AIModel |-> "", AIProvider |-> "", Language |-> "", ReviewMode |-> "",
    GitDiff |-> <<>>, GitInfo |-> <<>> ]

Diffs == {<<>>, <<"+", "x">>}

\* The requests a JSON body or a metadata field can decode to.
Payloads ==
  [ AIModel : {"", "gpt-4"},
    AIProvider : {"", "google", "openai", "anthropic", "azure"},
    Language : {"", "go"},
    ReviewMode : {""},
    GitDiff : Diffs,
    GitInfo : {<<>>} ]

\* An HTTP request as HandleReview reads it: json is what the body (or the
\* metadata field) decodes to, <<>> when it is no valid JSON.
HTTPRequest(method, contentType, readErr, json, formErr, hasMetadata, hasFile, fileErr, file) ==
  [ Method |-> method, ContentType |-> contentType, readErr |-> readErr,
    json |-> json, formErr |-> formErr, hasMetadata |-> hasMetadata,
    hasFile |-> hasFile, fileErr |-> fileErr, file |-> file ]

JSONType == "application/json"
FormType == "multipart/form-data"

HTTPRequests ==
  { HTTPRequest("GET", JSONType, FALSE, <<>>, FALSE, FALSE, FALSE, FALSE, <<>>),
    HTTPRequest("POST", JSONType, TRUE, <<>>, FALSE, FALSE, FALSE, FALSE, <<>>),
    HTTPRequest("POST", JSONType, FALSE, <<>>, FALSE, FALSE, FALSE, FALSE, <<>>),
    HTTPRequest("POST", FormType, FALSE, <<>>, TRUE, FALSE, FALSE, FALSE, <<>>),
    HTTPRequest("POST", FormType, FALSE, <<>>, FALSE, FALSE, FALSE, FALSE, <<>>),
    HTTPRequest("POST", FormType, FALSE, <<>>, FALSE, TRUE, TRUE, FALSE, <<>>),
    HTTPRequest("POST", FormType, FALSE, <<ZeroRequest>>, FALSE, TRUE, FALSE, FALSE, <<>>),
    HTTPRequest("POST", FormType, FALSE, <<ZeroRequest>>, FALSE, TRUE, TRUE, TRUE, <<>>) }
    \cup { HTTPRequest("POST", JSONType, FALSE, <<p>>, FALSE, FALSE, FALSE, FALSE, <<>>) :
             p \in Payloads }
    \cup { HTTPRequest("POST", FormType, FALSE, <<p>>, FALSE, TRUE, TRUE, FALSE, d) :
             p \in Payloads, d \in Diffs }

\* A response written to the ResponseWriter: http.Error(w, error, status), or
\* the encoded ReviewResponse in body.
Response(status, error, body) == [status |-> status, error |-> error, body |-> body]

ReviewResponse(aiResponse) ==
  [ Source |-> [Name |-> <<"ai-review">>, URL |-> <<>>],
    Diagnostics |-> aiResponse.Diagnostics,
    Overview |-> aiResponse.Overview ]

\* The reading of the request: the ReviewRequest, or the response that ends
\* the handler.
Accepted(request) == [ok |-> TRUE, request |-> request, response |-> Response(0, <<>>, <<>>)]
Rejected(status, error) ==
  [ok |-> FALSE, request |-> ZeroRequest, response |-> Response(status, error, <<>>)]

DecodeRequest(r) ==
  IF r.ContentType = JSONType
    THEN IF r.readErr THEN Rejected(400, <<"Failed to read request body">>)
         ELSE IF r.json = <<>> THEN Rejected(400, <<"Invalid JSON">>)
         ELSE Accepted(r.json[1])
    ELSE IF r.formErr THEN Rejected(400, <<"Failed to parse form">>)
         ELSE IF ~r.hasMetadata THEN Rejected(400, <<"Missing metadata field">>)
         ELSE IF r.json = <<>> THEN Rejected(400, <<"Invalid metadata JSON">>)
         ELSE IF ~r.hasFile THEN Rejected(400, <<"Missing or invalid git_diff file">>)
         ELSE IF r.fileErr THEN Rejected(500, <<"Failed to read diff content">>)
         ELSE Accepted([r.json[1] EXCEPT !.GitDiff = r.file])

\* SetDefaults as it would be if it left the model to the provider.
SetDefaultsKeepingModel(request, c) ==
  [ request EXCEPT
      !.AIProvider = IF @ = "" THEN c.DefaultProvider ELSE @,
      !.Language = IF @ = "" THEN "unknown" ELSE @ ]

\* The block "Set defaults".
SetDefaults(request, c) ==
  [ request EXCEPT
      !.AIProvider = IF @ = "" THEN c.DefaultProvider ELSE @,
      !.AIModel = IF @ = "" THEN c.DefaultModel ELSE @,
      !.Language = IF @ = "" THEN "unknown" ELSE @ ]

NoCall == [vendor |-> "", model |-> "", diff |-> <<>>]

\* One run of HandleReview: pc is where it stands, provider the name it
\* passed to registry.Get ("" when it did not get that far), call the vendor
\* call in flight, ctxErr the error of its context, vendorCalls the vendor
\* calls issued so far, reply what the vendor call came back with, review what
\* Review did, responses the responses written.
Finished(provider, response) ==
  [ pc |-> "done", provider |-> provider, call |-> NoCall, ctxErr |-> NoError,
    vendorCalls |-> 0, reply |-> <<>>, review |-> <<>>,
    responses |-> <<response>> ]

InFlight(provider, call) ==
  [ pc |-> "inflight", provider |-> provider, call |-> call, ctxErr |-> NoError,
    vendorCalls |-> 1, reply |-> <<>>, review |-> <<>>, responses |-> <<>> ]

\* HandleReview from registry.Get on: got is what Get returned for the
\* provider of request.
HandleReviewGot(request, got) ==
  IF got.err # NoError
    THEN Finished(request.AIProvider,
                  Response(400, <<"Provider not available: ">> \o got.err, <<>>))
    ELSE InFlight(request.AIProvider, VendorCall(got.result[1], request))

\* HandleReviewRequest as it would be if a provider that is not registered
\* were replaced by one that is.
HandleReviewRequestFallback(request, registry) ==
  IF request.AIProvider \notin DOMAIN registry /\ DOMAIN registry # {}
    THEN HandleReviewGot(request, Get(registry, CHOOSE n \in DOMAIN registry : TRUE))
    ELSE HandleReviewGot(request, Get(registry, request.AIProvider))

\* HandleReview with the defaults set.
HandleReviewRequest(request, registry) ==
  HandleReviewGot(request, Get(registry, request.AIProvider))

\* HandleReviewDecoded as it would be without the validation of the request.
HandleReviewDecodedUnvalidated(d, c, registry) ==
  IF ~d.ok THEN Finished("", d.response)
  ELSE HandleReviewRequest(SetDefaults(d.request, c), registry)

\* HandleReview from the reading of the request on.
HandleReviewDecoded(d, c, registry) ==
  IF ~d.ok THEN Finished("", d.response)
  ELSE IF d.request.GitDiff = <<>>
    THEN Finished("", Response(400, <<"Empty git diff">>, <<>>))
  ELSE HandleReviewRequest(SetDefaults(d.request, c), registry)

\* HandleReview from its start to the vendor call of provider.Review, or to
\* the response that ends it before.
HandleReviewToCall(r, c, registry) ==
  IF r.Method # "POST"
    THEN Finished("", Response(405, <<"Method not allowed">>, <<>>))
  ELSE HandleReviewDecoded(DecodeRequest(r), c, registry)

\* HandleReview from the return of provider.Review on.
HandleReviewFromReview(h, review) ==
  IF review.ret.panicked THEN [h EXCEPT !.pc = "panicked", !.review = <<review>>]
  ELSE IF review.ret.err # NoError
    THEN [ h EXCEPT
             !.pc = "done",
             !.review = <<review>>,
             !.responses = Append(@, Response(500, <<"AI review failed: ">> \o review.ret.err, <<>>)) ]
  ELSE [ h EXCEPT
           !.pc = "done",
           !.review = <<review>>,
           !.responses = Append(@, Response(StatusOK, <<>>,
                                    <<ReviewResponse(review.ret.result[1])>>)) ]

\* HandleReviewFromReply as it would be with one retry of a failed vendor
\* call.
HandleReviewFromReplyRetrying(h, resp) ==
  IF Review(h.call, resp).ret.err # NoError /\ h.vendorCalls < 2
    THEN [h EXCEPT !.vendorCalls = @ + 1]
    ELSE HandleReviewFromReview([h EXCEPT !.call = NoCall, !.reply = <<resp>>],
                                Review(h.call, resp))

\* HandleReview from the reply of the vendor call on: the rest of Review,
\* then the response.
HandleReviewFromReply(h, resp) ==
  HandleReviewFromReview([h EXCEPT !.call = NoCall, !.reply = <<resp>>],
                         Review(h.call, resp))

(***************************************************************************)
(* State.                                                                  *)
(***************************************************************************)
VARIABLES
  mainpc,            \* where main stands
  cfg,               \* the Config that main loaded
  providerRegistry,  \* the providers map of the Registry
  handlers,          \* the runs of HandleReview, a bag: goroutines have no name
  registryCalls,     \* the calls made on a Registry on its own, with their returns
  responseText,      \* the argument of a ParseAIResponse called on its own
  parsed,            \* what that call returned, <<>> before it
  input,             \* the argument of another function called on its own
  output,            \* what that function returned, <<>> before the call
  fatal              \* what main logged with log.Fatal, <<>> before it

vars ==
  << mainpc, cfg, providerRegistry, handlers, registryCalls, responseText,
     parsed, input, output, fatal >>

\* One element of a bag replaced by another.
Replace(bag, old, new) == (bag (-) SetToBag({old})) (+) SetToBag({new})

(***************************************************************************)
(* The service: main, then the handlers of the requests.                   *)
(***************************************************************************)
Init ==
  /\ mainpc = "validate"
  /\ cfg \in { Load(env) : env \in Environments }
  /\ providerRegistry = NewRegistry
  /\ handlers = EmptyBag
  /\ registryCalls = <<>>
  /\ responseText = <<>>
  /\ parsed = <<>>
  /\ input = <<>>
  /\ output = <<>>
  /\ fatal = <<>>

\* cfg.Validate(), and on an error log.Fatalf.
MainValidate ==
  /\ mainpc = "validate"
  /\ mainpc' = IF Validate(cfg) # NoError THEN "exited" ELSE "gemini"
  /\ fatal' = IF Validate(cfg) # NoError
                THEN <<"Configuration error: ">> \o Validate(cfg)
                ELSE fatal
  /\ UNCHANGED <<cfg, providerRegistry, handlers, registryCalls, responseText, parsed, input, output>>

\* The Gemini block of main; genai.NewClient may fail.
MainRegisterGemini ==
  /\ mainpc = "gemini"
  /\ mainpc' = "openai"
  /\ \E initErr \in BOOLEAN :
       providerRegistry' =
         IF cfg.GoogleAPIKey # "" /\ ~initErr
           THEN Register(providerRegistry, "google", NewGeminiProvider(cfg.GoogleAPIKey))
           ELSE providerRegistry
  /\ UNCHANGED <<cfg, handlers, registryCalls, responseText, parsed, input, output, fatal>>

MainRegisterOpenAI ==
  /\ mainpc = "openai"
  /\ mainpc' = "claude"
  /\ providerRegistry' =
       IF cfg.OpenAIAPIKey # ""
         THEN Register(providerRegistry, "openai", NewOpenAIProvider(cfg.OpenAIAPIKey))
         ELSE providerRegistry
  /\ UNCHANGED <<cfg, handlers, registryCalls, responseText, parsed, input, output, fatal>>

\* MainRegisterClaude as it would be if the Claude provider were registered
\* once the server is up.
MainRegisterClaudeLate ==
  /\ mainpc \in {"claude", "serving"}
  /\ mainpc' = IF mainpc = "claude" THEN "check" ELSE mainpc
  /\ providerRegistry' =
       IF mainpc = "serving" /\ cfg.AnthropicAPIKey # ""
         THEN Register(providerRegistry, "anthropic", NewClaudeProvider(cfg.AnthropicAPIKey))
         ELSE providerRegistry
  /\ UNCHANGED <<cfg, handlers, registryCalls, responseText, parsed, input, output, fatal>>

\* The Claude block of main.
MainRegisterClaude ==
  /\ mainpc = "claude"
  /\ mainpc' = "check"
  /\ providerRegistry' =
       IF cfg.AnthropicAPIKey # ""
         THEN Register(providerRegistry, "anthropic", NewClaudeProvider(cfg.AnthropicAPIKey))
         ELSE providerRegistry
  /\ UNCHANGED <<cfg, handlers, registryCalls, responseText, parsed, input, output, fatal>>

\* MainCheckProviders as it would be without the check of the list.
MainCheckProvidersSkipped ==
  /\ mainpc = "check"
  /\ mainpc' = "listen"
  /\ UNCHANGED <<cfg, providerRegistry, handlers, registryCalls, responseText, parsed, input, output, fatal>>

\* len(providerRegistry.List()) == 0, and log.Fatal.
MainCheckProviders ==
  /\ mainpc = "check"
  /\ \E names \in List(providerRegistry) :
       /\ mainpc' = IF Len(names) = 0 THEN "exited" ELSE "listen"
       /\ fatal' = IF Len(names) = 0
                     THEN <<"No AI providers configured. Please set at least one API key.">>
                     ELSE fatal
  /\ UNCHANGED <<cfg, providerRegistry, handlers, registryCalls, responseText, parsed, input, output>>

\* The handler, the routes, and http.ListenAndServe, which may fail.
MainListenAndServe ==
  /\ mainpc = "listen"
  /\ \/ mainpc' = "serving" /\ fatal' = fatal
     \/ mainpc' = "exited" /\ fatal' = <<"Server failed to start: ", "listen error">>
  /\ UNCHANGED <<cfg, providerRegistry, handlers, registryCalls, responseText, parsed, input, output>>

\* The server is accepting requests.
Serving == mainpc = "serving"

\* A request arrives and its goroutine runs HandleReview up to the vendor
\* call.
HandleReview ==
  /\ Serving
  /\ BagCardinality(handlers) < MaxRequests
  /\ \E r \in HTTPRequests :
       handlers' = handlers (+) SetToBag({HandleReviewToCall(r, cfg, providerRegistry)})
  /\ UNCHANGED <<mainpc, cfg, providerRegistry, registryCalls, responseText, parsed, input, output, fatal>>

\* The context of a vendor call in flight is done: the 120 s are over, or the
\* request was cancelled.
ContextDone ==
  /\ \E h \in BagToSet(handlers), e \in {DeadlineExceeded, Canceled} :
       /\ h.pc = "inflight"
       /\ h.ctxErr = NoError
       /\ handlers' = Replace(handlers, h, [h EXCEPT !.ctxErr = e])
  /\ UNCHANGED <<mainpc, cfg, providerRegistry, registryCalls, responseText, parsed, input, output, fatal>>

\* A vendor call comes back and its goroutine runs HandleReview to its end.
VendorReturns ==
  /\ \E h \in BagToSet(handlers) :
       /\ h.pc = "inflight"
       /\ \E resp \in VendorReplies(h.call, h.ctxErr) :
            handlers' = Replace(handlers, h, HandleReviewFromReply(h, resp))
  /\ UNCHANGED <<mainpc, cfg, providerRegistry, registryCalls, responseText, parsed, input, output, fatal>>

Next ==
  \/ MainValidate
  \/ MainRegisterGemini
  \/ MainRegisterOpenAI
  \/ MainRegisterClaude
  \/ MainCheckProviders
  \/ MainListenAndServe
  \/ HandleReview
  \/ ContextDone
  \/ VendorReturns

Spec == Init /\ [][Next]_vars

(***************************************************************************)
(* A Registry on its own: any calls of Register, Get and List, in any      *)
(* order.  registryCalls records each call with what it returned.          *)
(***************************************************************************)
ProviderNames == {"google", "openai", "azure"}
Providers == {NewGeminiProvider("g-key"), NewOpenAIProvider("o-key")}

RegisterCall(name, provider) ==
  [op |-> "Register", name |-> name, provider |-> <<provider>>, ret |-> <<>>]
GetCall(name, ret) == [op |-> "Get", name |-> name, provider |-> <<>>, ret |-> ret]
ListCall(names) == [op |-> "List", name |-> "", provider |-> <<>>, ret |-> names]

InitRegistry ==
  /\ mainpc = "registry"
  /\ cfg = <<>>
  /\ providerRegistry = NewRegistry
  /\ handlers = EmptyBag
  /\ registryCalls = <<>>
  /\ responseText = <<>>
  /\ parsed = <<>>
  /\ input = <<>>
  /\ output = <<>>
  /\ fatal = <<>>

RegistryRegister ==
  /\ mainpc = "registry"
  /\ Len(registryCalls) < MaxRegistryOps
  /\ \E name \in ProviderNames, provider \in Providers :
       /\ providerRegistry' = Register(providerRegistry, name, provider)
       /\ registryCalls' = Append(registryCalls, RegisterCall(name, provider))
  /\ UNCHANGED <<mainpc, cfg, handlers, responseText, parsed, input, output, fatal>>

RegistryGet ==
  /\ mainpc = "registry"
  /\ Len(registryCalls) < MaxRegistryOps
  /\ \E name \in ProviderNames :
       registryCalls' = Append(registryCalls, GetCall(name, Get(providerRegistry, name)))
  /\ UNCHANGED <<mainpc, cfg, providerRegistry, handlers, responseText, parsed, input, output, fatal>>

RegistryList ==
  /\ mainpc = "registry"
  /\ Len(registryCalls) < MaxRegistryOps
  /\ \E names \in List(providerRegistry) :
       registryCalls' = Append(registryCalls, ListCall(names))
  /\ UNCHANGED <<mainpc, cfg, providerRegistry, handlers, responseText, parsed, input, output, fatal>>

NextRegistry == RegistryRegister \/ RegistryGet \/ RegistryList

SpecRegistry == InitRegistry /\ [][NextRegistry]_vars

(***************************************************************************)
(* ParseAIResponse on its own: one call on any of the texts ParseInputs.   *)
(***************************************************************************)
\* The tokens the texts of ParseInputs are made of.
Alphabet ==
  { "{", "}", ":", ",", "[", "\"line\"", "\"ok\"", "3", "null", Fence, NL,
    "File:", "Line:", "-" }

\* The sequences over S of length n at most.
SeqUpTo(S, n) == UNION { [1..k -> S] : k \in 0..n }

\* The texts around those tokens: none, a JSON object whose overview
\* they are, one whose only issue they are, a fenced block, a file and line
\* marker.
Frames ==
  { <<<<>>, <<>>>>,
    << <<"{", "\"overview\"", ":">>, <<",", "\"issues\"", ":", "[", "]", "}">> >>,
    << <<"{", "\"overview\"", ":", "\"ok\"", ",", "\"issues\"", ":", "[", "{">>,
       <<"}", "]", "}">> >>,
    << <<"LGTM", NL, Fence, JsonLabel, NL, "{">>, <<"}", NL, Fence>> >>,
    << <<"File:", SP, "app.py", SP>>, <<SP, "check">> >> }

\* The text of a JSON member, and of the members or elements joined by
\* commas.
Member(key, value) == <<key, ":">> \o value

RECURSIVE Joined(_, _)
Joined(parts, i) ==
  IF i > Len(parts) THEN <<>>
  ELSE (IF i > 1 THEN <<",">> ELSE <<>>) \o parts[i] \o Joined(parts, i + 1)

ObjectText(members) == <<"{">> \o Joined(members, 1) \o <<"}">>
ArrayText(elements) == <<"[">> \o Joined(elements, 1) \o <<"]">>

\* A member that the backend may leave out: no value, no member.
Optional(key, value) == IF value = "" THEN <<>> ELSE <<Member(key, <<value>>)>>

\* The severities a backend emits: in any case, padded, unknown, empty,
\* null, a number, or none ("").
SeverityValues ==
  { "\"ERROR\"", "\"error\"", "\"Critical\"", "\"high\"", "\"warning\"",
    "\"WARN\"", "\"medium\"", "\"info\"", "\"low\"", "\"note\"",
    "\"information\"", "\"blocker\"", "\" warn \"", "\"\"", "null", "3", "" }

\* The columns a backend emits: none (""), zero, null, or a number, small
\* against the width of int.
ColumnValues == {"", "0", "1", "10", "null"}

\* The text of an issue.
IssueText(file, line, column, severity, message, suggestion) ==
  ObjectText(
    << Member("\"file\"", <<file>>), Member("\"line\"", <<line>>) >>
      \o Optional("\"column\"", column)
      \o Optional("\"severity\"", severity)
      \o << Member("\"category\"", <<"\"bug\"">>), Member("\"message\"", <<message>>) >>
      \o Optional("\"suggestion\"", suggestion))

\* The text of a response.
ResponseText(overview, issues) ==
  ObjectText(Optional("\"overview\"", overview)
               \o <<Member("\"issues\"", ArrayText(issues))>>)

\* A few issues, to put two of in one response.
SomeIssues ==
  { IssueText("\"a.js\"", "3", "", "\"high\"", "\"m\"", ""),
    IssueText("\"a.js\"", "42", "10", "\"low\"", "\"m\"", "\"fix\""),
    IssueText("\"\"", "0", "1", "", "\"ok\"", "") }

\* Responses in the format the system prompt asks for.
StructuredTexts ==
  { ResponseText("\"ok\"", <<IssueText("\"a.js\"", "42", column, severity, "\"m\"", "")>>) :
      column \in ColumnValues, severity \in SeverityValues }
    \cup { ResponseText("\"ok\"", <<a, b>>) : a \in SomeIssues, b \in SomeIssues }
    \cup { ResponseText(overview, <<>>) : overview \in {"", "\"\"", "\"ok\"", "null", "3"} }

\* Lines of the form "File: <path> Line: <n> - <message>".
FileLineTexts ==
  { <<fm, SP, path, SP, lm, SP, n, SP, sep, SP>> \o message :
      fm \in FileMarker, path \in {"app.py", "Summary"}, lm \in LineMarker,
      n \in IntLit, sep \in {"-", ":"},
      message \in {<<"missing", SP, "check">>, <<"LGTM", SP>>} }

\* Prose: words, headings, blank and indented lines.
ProseAlphabet == {"#", SP, NL, "LGTM"}

ProseTexts ==
  { start \o end :
      start \in SeqUpTo(ProseAlphabet, MaxTextLen),
      end \in {<<>>, <<NL, SP, "Summary", SP>>, <<NL>> \o TextFileLine} }

ParseInputs ==
  VendorTexts \cup StructuredTexts \cup FileLineTexts \cup ProseTexts \cup
    { f[1] \o mid \o f[2] : f \in Frames, mid \in SeqUpTo(Alphabet, MaxTextLen) }

InitParse ==
  /\ mainpc = "parse"
  /\ cfg = <<>>
  /\ providerRegistry = NewRegistry
  /\ handlers = EmptyBag
  /\ registryCalls = <<>>
  /\ responseText \in ParseInputs
  /\ parsed = <<>>
  /\ input = <<>>
  /\ output = <<>>
  /\ fatal = <<>>

CallParseAIResponse ==
  /\ mainpc = "parse"
  /\ parsed = <<>>
  /\ parsed' = <<ParseAIResponse(responseText)>>
  /\ UNCHANGED <<mainpc, cfg, providerRegistry, handlers, registryCalls, responseText, input, output, fatal>>

NextParse == CallParseAIResponse

SpecParse == InitParse /\ [][NextParse]_vars

(***************************************************************************)
(* Review on its own: one call of the Review of any provider, with any     *)
(* request.  input is the provider and the request, output the vendor call *)
(* and then what Review did.                                               *)
(***************************************************************************)
ReviewProviders == Providers \cup {NewClaudeProvider("a-key")}

ReviewRequests ==
  [ AIModel : {"", "gpt-4", "gemini-1.5-pro", "claude-3-opus-20240229", "my-model"},
    AIProvider : {"", "google"},
    Language : {"", "go"},
    ReviewMode : {""},
    GitDiff : Diffs,
    GitInfo : {<<>>} ]

InitReview ==
  /\ mainpc = "review"
  /\ cfg = <<>>
  /\ providerRegistry = NewRegistry
  /\ handlers = EmptyBag
  /\ registryCalls = <<>>
  /\ responseText = <<>>
  /\ parsed = <<>>
  /\ input \in [provider : ReviewProviders, request : ReviewRequests]
  /\ output = <<>>
  /\ fatal = <<>>

\* Review runs up to its vendor call.
ReviewCalls ==
  /\ mainpc = "review"
  /\ output = <<>>
  /\ output' = <<VendorCall(input.provider, input.request)>>
  /\ UNCHANGED <<mainpc, cfg, providerRegistry, handlers, registryCalls, responseText, parsed, input, fatal>>

\* The vendor call comes back and Review runs to its end.
ReviewReturns ==
  /\ mainpc = "review"
  /\ Len(output) = 1
  /\ \E resp \in VendorReplies(output[1], NoError) :
       output' = Append(output, Review(output[1], resp))
  /\ UNCHANGED <<mainpc, cfg, providerRegistry, handlers, registryCalls, responseText, parsed, input, fatal>>

NextReview == ReviewCalls \/ ReviewReturns

SpecReview == InitReview /\ [][NextReview]_vars

(***************************************************************************)
(* normalizeSeverity on its own: one call on any of the severities         *)
(* SeverityInputs, and one more on what it returned.                       *)
(***************************************************************************)
\* The words of a severity, in several cases, and whitespace.
SeverityAlphabet ==
  { "ERROR", "error", "Critical", "high", "WARNING", "warning", "WARN", "warn",
    "medium", "INFO", "info", "information", "low", "note", "blocker", SP, NL }

SeverityInputs == SeqUpTo(SeverityAlphabet, MaxTextLen)

InitSeverity ==
  /\ mainpc = "severity"
  /\ cfg = <<>>
  /\ providerRegistry = NewRegistry
  /\ handlers = EmptyBag
  /\ registryCalls = <<>>
  /\ responseText = <<>>
  /\ parsed = <<>>
  /\ input \in SeverityInputs
  /\ output = <<>>
  /\ fatal = <<>>

CallNormalizeSeverity ==
  /\ mainpc = "severity"
  /\ output = <<>>
  /\ output' = <<normalizeSeverity(input)>>
  /\ UNCHANGED <<mainpc, cfg, providerRegistry, handlers, registryCalls, responseText, parsed, input, fatal>>

CallNormalizeSeverityAgain ==
  /\ mainpc = "severity"
  /\ Len(output) = 1
  /\ output' = Append(output, normalizeSeverity(output[1]))
  /\ UNCHANGED <<mainpc, cfg, providerRegistry, handlers, registryCalls, responseText, parsed, input, fatal>>

NextSeverity == CallNormalizeSeverity \/ CallNormalizeSeverityAgain

SpecSeverity == InitSeverity /\ [][NextSeverity]_vars

(***************************************************************************)
(* GenerateUserPrompt.  A GitInfo pointer is <<>> (nil) or <<g>>; the      *)
(* strings of g and the prompt are sequences of tokens.                    *)
(***************************************************************************)
UserPromptOpening == <<"Please review the following code changes:", NL, NL>>

ContextHeading == "**Context:**"
RepositoryLabel == "- Repository: "
BranchLabel == "- Branch: "
PRNumberLabel == "- PR Number: #"

\* fmt.Sprintf of a label, %s and "\n", written when the value is not "".
LabelLine(label, value) ==
  IF value # <<>> THEN <<label>> \o value \o <<NL>> ELSE <<>>

\* The context with every label written, whatever the value.
ContextBlockAllLabels(gitInfo) ==
  IF gitInfo # <<>>
    THEN <<ContextHeading, NL>>
         \o <<RepositoryLabel>> \o gitInfo[1].RepoURL \o <<NL>>
         \o <<BranchLabel>> \o gitInfo[1].BranchName \o <<NL>>
         \o <<PRNumberLabel>> \o gitInfo[1].PRNumber \o <<NL>>
         \o <<NL>>
  ELSE <<>>

ContextBlock(gitInfo) ==
  IF gitInfo # <<>>
    THEN <<ContextHeading, NL>>
         \o LabelLine(RepositoryLabel, gitInfo[1].RepoURL)
         \o LabelLine(BranchLabel, gitInfo[1].BranchName)
         \o LabelLine(PRNumberLabel, gitInfo[1].PRNumber)
         \o <<NL>>
  ELSE <<>>

DiffFenceOpen == <<"**Git Diff:**", NL, Fence, "diff", NL>>
DiffFenceClose == <<NL, Fence, NL, NL>>

ReviewInstructions ==
  << "**Review Instructions:**", NL,
     "1. Check EVERY changed line against ALL 6 categories:", NL,
     "   - Possible Bug", NL,
     "   - Best Practice", NL,
     "   - Performance", NL,
     "   - Maintainability", NL,
     "   - Possible Issue", NL,
     "   - Enhancement", NL, NL,
     "2. Provide specific line numbers and actionable suggestions", NL,
     "3. Respond ONLY with valid JSON in the format specified", NL >>

\* GenerateUserPrompt as it would be if it trimmed the diff.
GenerateUserPromptTrimmed(request) ==
  UserPromptOpening \o ContextBlock(request.GitInfo)
    \o DiffFenceOpen \o TrimSpace(request.GitDiff) \o DiffFenceClose
    \o ReviewInstructions

GenerateUserPrompt(request) ==
  UserPromptOpening \o ContextBlock(request.GitInfo)
    \o DiffFenceOpen \o request.GitDiff \o DiffFenceClose
    \o ReviewInstructions

\* The diffs of the prompts: changed lines, and text that looks like the
\* prompt's own.
DiffAlphabet == {"+", "x", NL, Fence, BranchLabel, ContextHeading}

GitInfos ==
  [ CommitHash : {<<>>, <<"abc123">>},
    BranchName : {<<>>, <<"main">>},
    PRNumber : {<<>>, <<"42">>},
    RepoURL : {<<>>, <<"https://example.com/repo">>},
    Author : {<<>>},
    Committer : {<<>>} ]

PromptRequests ==
  [ AIModel : {""},
    AIProvider : {""},
    Language : {""},
    ReviewMode : {""},
    GitDiff : SeqUpTo(DiffAlphabet, MaxTextLen),
    GitInfo : {<<>>} \cup { <<g>> : g \in GitInfos } ]

InitPrompt ==
  /\ mainpc = "prompt"
  /\ cfg = <<>>
  /\ providerRegistry = NewRegistry
  /\ handlers = EmptyBag
  /\ registryCalls = <<>>
  /\ responseText = <<>>
  /\ parsed = <<>>
  /\ input \in PromptRequests
  /\ output = <<>>
  /\ fatal = <<>>

CallGenerateUserPrompt ==
  /\ mainpc = "prompt"
  /\ output = <<>>
  /\ output' = <<GenerateUserPrompt(input)>>
  /\ UNCHANGED <<mainpc, cfg, providerRegistry, handlers, registryCalls, responseText, parsed, input, fatal>>

NextPrompt == CallGenerateUserPrompt

SpecPrompt == InitPrompt /\ [][NextPrompt]_vars

(***************************************************************************)
(* GenerateSystemPrompt: the text around the two %s, then the language.    *)
(***************************************************************************)
SystemPromptHead == "You are an expert code reviewer specializing in "
SystemPromptBody ==
  ". Review ALL code changes [categories, output format, severity guidelines, rules] - Consider "
SystemPromptTail == "-specific best practices and idioms"

GenerateSystemPrompt(language) ==
  <<SystemPromptHead>> \o (IF language = "" THEN <<>> ELSE <<language>>)
    \o <<SystemPromptBody>> \o (IF language = "" THEN <<>> ELSE <<language>>)
    \o <<SystemPromptTail>>

(***************************************************************************)
(* The functions of package prompt, statement by statement, called by one  *)
(* goroutine or by two at once.  input holds the calls, output the frame   *)
(* of each call: arg is the argument as it is now (for GenerateUserPrompt  *)
(* the ReviewRequest that the pointer refers to), jsonStr, rawResponse and *)
(* builder are the locals, stages the functions that ran, ret what the     *)
(* call returned.                                                          *)
(***************************************************************************)
Call(fn, arg) == [fn |-> fn, arg |-> arg]

NewFrame(call) ==
  [ fn |-> call.fn, arg |-> call.arg, pc |-> "start", jsonStr |-> <<>>,
    rawResponse |-> <<>>, builder |-> <<>>, stages |-> <<>>, ret |-> <<>> ]

\* A fenced block, with a label or without.
Fenced(label, body) == <<Fence>> \o label \o <<NL>> \o body \o <<NL, Fence>>

\* What stands before a fenced block, and the labels of one.
Preambles ==
  { <<>>,
    <<"LGTM", NL>>,
    <<"{", "LGTM", "}", NL>>,
    ResponseText("\"m\"", <<>>) \o <<NL>>,
    Fenced(<<"go">>, <<"{", "}">>) \o <<NL>> }

FenceLabels == {<<>>, <<JsonLabel>>}

\* What stands in a fenced block: responses, an empty object, and objects
\* that do not decode.
FencedBodies ==
  { ResponseText("\"ok\"", <<>>),
    ResponseText("\"ok\"", <<IssueText("\"a.js\"", "42", "", "\"high\"", "\"m\"", "")>>),
    <<"{", "}">>,
    <<"{", "\"overview\"", ":", "}">>,
    <<"{", "\"overview\"", ":", "3", ",", "\"issues\"", ":", "[", "]", "}">> }

\* What stands after a fenced block.
Postambles ==
  { <<>>,
    <<NL, "LGTM">>,
    <<NL>> \o ResponseText("\"m\"", <<>>),
    <<NL>> \o TextFileLine,
    <<NL>> \o Fenced(<<>>, ResponseText("\"m\"", <<>>)) }

\* Texts with a fenced block among prose and other JSON.
MixedTexts ==
  { pre \o Fenced(label, body) \o post :
      pre \in Preambles, label \in FenceLabels, body \in FencedBodies,
      post \in Postambles }

\* Texts without a fenced block: prose around a response, or around none.
RawTexts ==
  { pre \o body \o post :
      pre \in {<<>>, <<"LGTM", NL>>, <<"{", "LGTM", "}", NL>>, <<Fence, JsonLabel, NL>>},
      body \in FencedBodies \cup {<<>>, <<"LGTM">>},
      post \in {<<>>, <<NL, "LGTM">>, <<NL, "{", "}">>, <<NL>> \o TextFileLine} }

StageTexts == VendorTexts \cup MixedTexts \cup RawTexts

\* The calls that two goroutines make at once.
SharedCalls ==
  { Call("ParseAIResponse", t) : t \in {TextJSON, TextFenced, TextFileLine, TextMalformed} }
    \cup { Call("GenerateSystemPrompt", l) : l \in {"", "go"} }
    \cup { Call("GenerateUserPrompt", r) :
             r \in { q \in PromptRequests :
                       /\ q.GitDiff \in {<<"+", "x">>, <<NL, "x", NL>>}
                       /\ q.GitInfo = <<>> \/ q.GitInfo[1].BranchName # <<>> } }

InitCalls ==
  /\ mainpc = "calls"
  /\ cfg = <<>>
  /\ providerRegistry = NewRegistry
  /\ handlers = EmptyBag
  /\ registryCalls = <<>>
  /\ responseText = <<>>
  /\ parsed = <<>>
  /\ input \in { <<Call("ParseAIResponse", t)>> : t \in StageTexts }
                 \cup { <<a, b>> : a \in SharedCalls, b \in SharedCalls }
  /\ output = [i \in 1..Len(input) |-> NewFrame(input[i])]
  /\ fatal = <<>>

\* The frames of fn that stand at pc.
At(fn, pc) == { i \in 1..Len(output) : output[i].fn = fn /\ output[i].pc = pc }

\* A statement of call i: its frame becomes new, and nothing else changes.
Statement(i, new) ==
  /\ output' = [output EXCEPT ![i] = new]
  /\ UNCHANGED <<mainpc, cfg, providerRegistry, handlers, registryCalls, responseText, parsed, input, fatal>>

\* CallExtractJSON as it would be if jsonStr were a variable of the package.
CallExtractJSONShared ==
  /\ mainpc = "calls"
  /\ \E i \in At("ParseAIResponse", "start") :
       /\ output' =
            [ j \in 1..Len(output) |->
                IF j = i
                  THEN [ output[j] EXCEPT !.pc = "unmarshal",
                           !.jsonStr = extractJSON(output[i].arg),
                           !.stages = Append(@, "extractJSON") ]
                ELSE IF output[j].fn = "ParseAIResponse"
                  THEN [output[j] EXCEPT !.jsonStr = extractJSON(output[i].arg)]
                ELSE output[j] ]
       /\ UNCHANGED <<mainpc, cfg, providerRegistry, handlers, registryCalls, responseText, parsed, input, fatal>>

\* jsonStr := extractJSON(responseText)
CallExtractJSON ==
  /\ mainpc = "calls"
  /\ \E i \in At("ParseAIResponse", "start") :
       Statement(i, [ output[i] EXCEPT !.pc = "unmarshal",
                        !.jsonStr = extractJSON(output[i].arg),
                        !.stages = Append(@, "extractJSON") ])

\* Unmarshalled as it would be if a response without issues were scanned
\* for the line pattern as well.
UnmarshalledScanning(frame, u) ==
  [ frame EXCEPT !.pc = IF u.ok /\ Len(u.val.Issues) > 0 THEN "convert" ELSE "fallback",
      !.rawResponse = <<u>>,
      !.stages = Append(@, "json.Unmarshal") ]

\* Unmarshalled as it would be if, a candidate failing, the text itself
\* were decoded next.
UnmarshalledRetrying(frame, u) ==
  IF ~u.ok /\ frame.jsonStr # frame.arg
    THEN [ frame EXCEPT !.jsonStr = frame.arg,
             !.stages = Append(@, "json.Unmarshal") ]
    ELSE [ frame EXCEPT !.pc = IF u.ok THEN "convert" ELSE "fallback",
             !.rawResponse = <<u>>,
             !.stages = Append(@, "json.Unmarshal") ]

\* The frame after json.Unmarshal returned u.
Unmarshalled(frame, u) ==
  [ frame EXCEPT !.pc = IF u.ok THEN "convert" ELSE "fallback",
      !.rawResponse = <<u>>,
      !.stages = Append(@, "json.Unmarshal") ]

\* err := json.Unmarshal([]byte(jsonStr), &rawResponse)
CallUnmarshal ==
  /\ mainpc = "calls"
  /\ \E i \in At("ParseAIResponse", "unmarshal") :
       Statement(i, Unmarshalled(output[i], Unmarshal(output[i].jsonStr)))

\* return parseUnstructuredResponse(responseText)
CallParseUnstructured ==
  /\ mainpc = "calls"
  /\ \E i \in At("ParseAIResponse", "fallback") :
       Statement(i, [ output[i] EXCEPT !.pc = "returned",
                        !.ret = <<parseUnstructuredResponse(output[i].arg)>>,
                        !.stages = Append(@, "parseUnstructuredResponse") ])

\* The loop over rawResponse.Issues and the return.
ConvertAndReturn ==
  /\ mainpc = "calls"
  /\ \E i \in At("ParseAIResponse", "convert") :
       Statement(i, [ output[i] EXCEPT !.pc = "returned",
                        !.ret = <<ConvertResponse(output[i].arg, output[i].rawResponse[1])>>,
                        !.stages = Append(@, "convert") ])

\* GenerateSystemPrompt: one fmt.Sprintf.
ReturnSystemPrompt ==
  /\ mainpc = "calls"
  /\ \E i \in At("GenerateSystemPrompt", "start") :
       Statement(i, [ output[i] EXCEPT !.pc = "returned",
                        !.ret = <<GenerateSystemPrompt(output[i].arg)>> ])

\* GenerateUserPrompt: the opening line.
WriteOpening ==
  /\ mainpc = "calls"
  /\ \E i \in At("GenerateUserPrompt", "start") :
       Statement(i, [ output[i] EXCEPT !.pc = "context",
                        !.builder = @ \o UserPromptOpening ])

\* GenerateUserPrompt: the context, if the request has a GitInfo.
WriteContext ==
  /\ mainpc = "calls"
  /\ \E i \in At("GenerateUserPrompt", "context") :
       Statement(i, [ output[i] EXCEPT !.pc = "diff",
                        !.builder = @ \o ContextBlock(output[i].arg.GitInfo) ])

\* GenerateUserPrompt: the diff in its fence.
WriteDiff ==
  /\ mainpc = "calls"
  /\ \E i \in At("GenerateUserPrompt", "diff") :
       Statement(i, [ output[i] EXCEPT !.pc = "instructions",
                        !.builder = @ \o DiffFenceOpen \o output[i].arg.GitDiff
                                      \o DiffFenceClose ])

\* GenerateUserPrompt: the review instructions, and return builder.String().
WriteInstructionsAndReturn ==
  /\ mainpc = "calls"
  /\ \E i \in At("GenerateUserPrompt", "instructions") :
       Statement(i, [ output[i] EXCEPT !.pc = "returned",
                        !.builder = @ \o ReviewInstructions,
                        !.ret = <<output[i].builder \o ReviewInstructions>> ])

NextCalls ==
  \/ CallExtractJSON
  \/ CallUnmarshal
  \/ CallParseUnstructured
  \/ ConvertAndReturn
  \/ ReturnSystemPrompt
  \/ WriteOpening
  \/ WriteContext
  \/ WriteDiff
  \/ WriteInstructionsAndReturn

SpecCalls == InitCalls /\ [][NextCalls]_vars

(***************************************************************************)
(* Properties.                                                             *)
(***************************************************************************)
\* The runs of HandleReview.
Runs == BagToSet(handlers)

\* A return that holds a result.
HasResult(ret) == ret.result # <<>>
\* A return that holds an error.
HasError(ret) == ret.err # NoError

\* C1: ParseAIResponse is total: whatever the text, the call returns, and it
\* returns a result that is not nil with an error that is nil.
C1_ParseAIResponseTotal ==
  parsed # <<>> =>
    /\ ~parsed[1].panicked
    /\ HasResult(parsed[1])
    /\ ~HasError(parsed[1])

\* C1, witness: ParseAIResponse has returned for a text whose JSON candidate
\* json.Unmarshal refuses.
C1_Witness ==
  /\ parsed # <<>>
  /\ "{" \in { responseText[i] : i \in 1..Len(responseText) }
  /\ ~Unmarshal(extractJSON(responseText)).ok

\* C2: every Review ends with a result and no error or with an error and no
\* result, never both and never neither, and every HandleReview that has
\* ended has written exactly one response.
C2_ExactlyOneOutcome ==
  \A h \in Runs :
    /\ h.review # <<>> =>
         /\ ~h.review[1].ret.panicked
         /\ HasResult(h.review[1].ret) # HasError(h.review[1].ret)
    /\ h.pc # "inflight" => Len(h.responses) = 1

\* C3: once Review has the text of a reply, whatever that text, it returns a
\* result with a nil error and HandleReview answers 200 with that result.
C3_TextNeverFails ==
  \A h \in Runs :
    (h.review # <<>> /\ h.review[1].parsed # <<>>) =>
      /\ ~h.review[1].ret.panicked
      /\ HasResult(h.review[1].ret)
      /\ ~HasError(h.review[1].ret)
      /\ h.responses =
           <<Response(StatusOK, <<>>, <<ReviewResponse(h.review[1].ret.result[1])>>)>>

\* C3, witness: a reply whose text is JSON of the wrong shape was answered
\* 200 with no diagnostics.
C3_Witness ==
  \E h \in Runs :
    /\ h.review # <<>>
    /\ h.review[1].parsed = <<TextWrongShape>>
    /\ h.responses # <<>>
    /\ h.responses[1].status = StatusOK
    /\ h.responses[1].body[1].Diagnostics = <<>>

\* A reply that arrived but holds no text: no candidate, choice or content
\* block, or a first one without text.
EmptyReply(reply) ==
  IF "Candidates" \in DOMAIN reply
    THEN /\ reply.err = NoError
         /\ \/ Len(reply.Candidates) = 0
            \/ reply.Candidates[1].Content = <<>>
            \/ TextOfParts(reply.Candidates[1].Content[1].Parts, 1) = <<>>
  ELSE IF "Choices" \in DOMAIN reply
    THEN /\ reply.err = NoError
         /\ \/ Len(reply.Choices) = 0
            \/ reply.Choices[1].Message.Content = <<>>
  ELSE /\ reply.err = NoError
       /\ reply.readErr = NoError
       /\ reply.StatusCode = StatusOK
       /\ reply.body # <<>>
       /\ reply.body[1].Error = <<>>
       /\ \/ Len(reply.body[1].Content) = 0
          \/ reply.body[1].Content[1].Text = <<>>

\* C4: when the reply of the vendor holds no text, Review returns an error
\* and no result.
C4_EmptyReplyIsError ==
  \A h \in Runs :
    (h.reply # <<>> /\ EmptyReply(h.reply[1])) =>
      /\ h.review # <<>>
      /\ ~h.review[1].ret.panicked
      /\ HasError(h.review[1].ret)
      /\ ~HasResult(h.review[1].ret)

\* A vendor call that failed: an error of the call, and for Claude an error
\* of the reading, a status that is not 200 or an error payload.
TransportFailure(reply) ==
  \/ reply.err # NoError
  \/ /\ "StatusCode" \in DOMAIN reply
     /\ \/ reply.readErr # NoError
        \/ reply.StatusCode # StatusOK
        \/ (reply.body # <<>> /\ reply.body[1].Error # <<>>)

\* C5: when the vendor call fails, Review returns an error and no result,
\* and it does not call ParseAIResponse.
C5_FailedCallIsError ==
  \A h \in Runs :
    (h.reply # <<>> /\ TransportFailure(h.reply[1])) =>
      /\ h.review # <<>>
      /\ ~h.review[1].ret.panicked
      /\ HasError(h.review[1].ret)
      /\ ~HasResult(h.review[1].ret)
      /\ h.review[1].parsed = <<>>

\* C5, witness: Review has returned on a failed Gemini call, a Claude reply
\* of status 401 and an error payload of status 200.
C5_Witness ==
  /\ \E h \in Runs :
       /\ h.reply # <<>>
       /\ "Candidates" \in DOMAIN h.reply[1]
       /\ h.reply[1].err = NetworkError
       /\ h.review # <<>>
  /\ \E h \in Runs :
       /\ h.reply # <<>>
       /\ "StatusCode" \in DOMAIN h.reply[1]
       /\ h.reply[1].StatusCode \in {401, StatusOK}
       /\ h.reply[1].body # <<>>
       /\ h.reply[1].body[1].Error # <<>>
       /\ h.review # <<>>

\* C6: a HandleReview that has called Review has issued one vendor call, one
\* that has not has issued none: no second call after a failure, and a call
\* of its own for each of two requests alike.
C6_OneVendorCall ==
  \A h \in Runs :
    h.vendorCalls = IF h.pc = "inflight" \/ h.review # <<>> THEN 1 ELSE 0

\* C6, witness: two requests alike have both ended on a failed vendor call,
\* each with its one vendor call.
C6_Witness ==
  \E h \in Runs :
    /\ CopiesIn(h, handlers) = 2
    /\ h.pc = "done"
    /\ h.review # <<>>
    /\ HasError(h.review[1].ret)
    /\ h.vendorCalls = 1

\* C7: when the context is done while the vendor call is in flight, the call
\* comes back with an error, Review returns an error and no result, no other
\* vendor call is issued, and HandleReview answers 500.
C7_DeadlineAborts ==
  \A h \in Runs :
    h.ctxErr # NoError =>
      /\ h.vendorCalls = 1
      /\ h.pc # "inflight" =>
           /\ TransportFailure(h.reply[1])
           /\ h.review # <<>>
           /\ HasError(h.review[1].ret)
           /\ ~HasResult(h.review[1].ret)
           /\ Len(h.responses) = 1
           /\ h.responses[1].status = 500
           /\ h.responses[1].body = <<>>

\* C7, witness: a HandleReview whose 120 s ran out during the vendor call has
\* answered 500.
C7_Witness ==
  \E h \in Runs :
    /\ h.ctxErr = DeadlineExceeded
    /\ h.pc = "done"
    /\ h.responses[1].status = 500

\* C8: the registry changes only before the server is serving and before any
\* HandleReview has run: Register is called by main only, and the handlers
\* only read.
C8_RegisterBeforeServing ==
  [][providerRegistry' # providerRegistry => (~Serving /\ ~Serving' /\ handlers = EmptyBag)]_vars

\* C8, witness: the server is serving with providers registered, and a
\* HandleReview has got its provider from the registry.
C8_Witness ==
  /\ Serving
  /\ DOMAIN providerRegistry = {"google", "anthropic"}
  /\ \E h \in Runs : h.pc = "inflight" /\ h.provider = "anthropic"

\* The index of the last Register of name among the first n calls, 0 when
\* there is none.
LastRegister(calls, name, n) ==
  Max({0} \cup { i \in 1..n : calls[i].op = "Register" /\ calls[i].name = name })

\* The names registered by the first n calls.
Registered(calls, n) ==
  { calls[i].name : i \in { j \in 1..n : calls[j].op = "Register" } }

\* C9: Get returns the provider of the last Register of the name with a nil
\* error, and for a name never registered nil with the error "not found";
\* List returns the registered names, each once.
C9_RegistryIsMap ==
  \A i \in 1..Len(registryCalls) :
    /\ registryCalls[i].op = "Get" =>
         IF LastRegister(registryCalls, registryCalls[i].name, i - 1) = 0
           THEN /\ registryCalls[i].ret.result = <<>>
                /\ registryCalls[i].ret.err =
                     <<"provider '", registryCalls[i].name, "' not found">>
           ELSE /\ registryCalls[i].ret.result =
                     registryCalls[LastRegister(registryCalls, registryCalls[i].name, i - 1)].provider
                /\ registryCalls[i].ret.err = NoError
    /\ registryCalls[i].op = "List" =>
         /\ { registryCalls[i].ret[k] : k \in 1..Len(registryCalls[i].ret) }
              = Registered(registryCalls, i - 1)
         /\ Len(registryCalls[i].ret) = Cardinality(Registered(registryCalls, i - 1))

\* C9, witness: a name was registered twice, with two providers, and then
\* got.
C9_Witness ==
  /\ Len(registryCalls) = 3
  /\ registryCalls[1].op = "Register"
  /\ registryCalls[2].op = "Register"
  /\ registryCalls[1].name = registryCalls[2].name
  /\ registryCalls[1].provider # registryCalls[2].provider
  /\ registryCalls[3].op = "Get"
  /\ registryCalls[3].name = registryCalls[1].name

\* C10: a HandleReview whose provider is not registered has ended with the
\* error of Get as its one response, without a vendor call and without a call
\* of Review.
C10_UnregisteredProvider ==
  \A h \in Runs :
    (h.provider # "" /\ h.provider \notin DOMAIN providerRegistry) =>
      /\ h.pc = "done"
      /\ h.vendorCalls = 0
      /\ h.call = NoCall
      /\ h.reply = <<>>
      /\ h.review = <<>>
      /\ h.responses =
           << Response(400,
                       <<"Provider not available: ", "provider '", h.provider,
                         "' not found">>,
                       <<>>) >>

\* C10, witness: a request that named no provider has ended, the default
\* provider not being registered while another one is.
C10_Witness ==
  \E h \in Runs :
    /\ h.provider = "google"
    /\ DOMAIN providerRegistry = {"openai"}
    /\ h.pc = "done"

\* The response of HandleReview to a request without diff.
EmptyDiffResponse == Response(400, <<"Empty git diff">>, <<>>)

\* C11: Review is never called with an empty diff: whatever the request, on
\* the JSON path and on the multipart path, HandleReview calls Review only
\* with a diff that is not empty, and answers a request that it could read
\* and whose diff is empty with 400 "Empty git diff" before it gets the
\* provider.
C11_NoEmptyDiffToReview ==
  /\ \A h \in Runs : h.pc = "inflight" => h.call.diff # <<>>
  /\ Serving =>
       \A r \in HTTPRequests :
         /\ HandleReviewToCall(r, cfg, providerRegistry).pc = "inflight" =>
              /\ DecodeRequest(r).ok
              /\ DecodeRequest(r).request.GitDiff # <<>>
              /\ HandleReviewToCall(r, cfg, providerRegistry).call.diff
                   = DecodeRequest(r).request.GitDiff
         /\ (r.Method = "POST" /\ DecodeRequest(r).ok
               /\ DecodeRequest(r).request.GitDiff = <<>>) =>
              HandleReviewToCall(r, cfg, providerRegistry)
                = Finished("", EmptyDiffResponse)

\* C11, witness: one request without diff was answered 400 before Get, and
\* the vendor call of another is in flight with its diff.
C11_Witness ==
  /\ \E h \in Runs : h = Finished("", EmptyDiffResponse)
  /\ \E h \in Runs : h.pc = "inflight" /\ h.call.diff = <<"+", "x">>

\* The three severities of a Diagnostic.
Canonical == {<<"ERROR">>, <<"WARNING">>, <<"INFO">>}

\* The diagnostics of the result that ParseAIResponse returned.
ParsedDiagnostics == parsed[1].result[1].Diagnostics

\* C12: every Diagnostic of every result that ParseAIResponse returns has the
\* severity ERROR, WARNING or INFO, on the structured path and on the
\* fallback path, whatever severity the text holds.
C12_SeverityCanonical ==
  (parsed # <<>> /\ HasResult(parsed[1])) =>
    \A i \in 1..Len(ParsedDiagnostics) : ParsedDiagnostics[i].Severity \in Canonical

\* C12, witness: ParseAIResponse has returned a Diagnostic for an issue of
\* severity "blocker", which is none that normalizeSeverity knows.
C12_Witness ==
  /\ parsed # <<>>
  /\ responseText =
       ResponseText("\"ok\"", <<IssueText("\"a.js\"", "42", "", "\"blocker\"", "\"m\"", "")>>)
  /\ Len(ParsedDiagnostics) = 1
  /\ ParsedDiagnostics[1].Severity = <<"INFO">>

\* C13: the overview of every result that ParseAIResponse returns is not
\* empty, on the structured path and on the fallback path.
C13_OverviewNonEmpty ==
  (parsed # <<>> /\ HasResult(parsed[1])) => parsed[1].result[1].Overview # <<>>

\* C14: the model of the vendor call is the model of the request when the
\* request names one, and otherwise gemini-2.0-flash for Gemini, gpt-4o for
\* OpenAI and claude-3-5-sonnet-20241022 for Claude.
C14_ModelOfVendorCall ==
  (mainpc = "review" /\ output # <<>>) =>
    output[1].model =
      IF input.request.AIModel # "" THEN input.request.AIModel
      ELSE CASE input.provider.type = "GeminiProvider" -> "gemini-2.0-flash"
             [] input.provider.type = "OpenAIProvider" -> "gpt-4o"
             [] input.provider.type = "ClaudeProvider" -> "claude-3-5-sonnet-20241022"

\* C14, witness: the Review of Claude, called with a request that names no
\* model, has made its vendor call with the default of Claude.
C14_Witness ==
  /\ mainpc = "review"
  /\ output # <<>>
  /\ input.provider.type = "ClaudeProvider"
  /\ input.request.AIModel = ""
  /\ output[1].model = "claude-3-5-sonnet-20241022"

\* What json.Unmarshal decodes from the text that ParseAIResponse was called
\* with.
DecodedResponse == Unmarshal(extractJSON(responseText))

\* ParseAIResponse has returned on the structured path.
StructuredPath == parsed # <<>> /\ HasResult(parsed[1]) /\ DecodedResponse.ok

\* C15: on the structured path the overview of the result is the decoded
\* overview, and the i-th Diagnostic is made from the i-th decoded issue, one
\* for each issue and in their order: its path is the file, its start and end
\* line the line, its message the message, its code value the category, its
\* suggestion the suggestion.
C15_OneDiagnosticPerIssue ==
  StructuredPath =>
    /\ parsed[1].result[1].Overview = DecodedResponse.val.Overview
    /\ Len(ParsedDiagnostics) = Len(DecodedResponse.val.Issues)
    /\ \A i \in 1..Len(ParsedDiagnostics) :
         /\ ParsedDiagnostics[i].Location.Path = DecodedResponse.val.Issues[i].File
         /\ ParsedDiagnostics[i].Location.Range.Start.Line = DecodedResponse.val.Issues[i].Line
         /\ ParsedDiagnostics[i].Location.Range.End.Line = DecodedResponse.val.Issues[i].Line
         /\ ParsedDiagnostics[i].Message = DecodedResponse.val.Issues[i].Message
         /\ ParsedDiagnostics[i].Code.Value = DecodedResponse.val.Issues[i].Category
         /\ ParsedDiagnostics[i].Suggestion = DecodedResponse.val.Issues[i].Suggestion

\* C15, witness: a response that holds the same issue twice (a.js, line 3,
\* high) has given the overview "ok" and two Diagnostics, the first an ERROR
\* at a.js 3:1.
C15_Witness ==
  /\ parsed # <<>>
  /\ responseText =
       ResponseText("\"ok\"", << IssueText("\"a.js\"", "3", "", "\"high\"", "\"m\"", ""),
                                IssueText("\"a.js\"", "3", "", "\"high\"", "\"m\"", "") >>)
  /\ parsed[1].result[1].Overview = <<"ok">>
  /\ Len(ParsedDiagnostics) = 2
  /\ ParsedDiagnostics[1].Severity = <<"ERROR">>
  /\ ParsedDiagnostics[1].Location.Path = <<"a.js">>
  /\ ParsedDiagnostics[1].Location.Range.Start = Position(3, 1)

\* C16: on the structured path the range of every Diagnostic ends on the line
\* where it starts, one column after its start, and an issue without column,
\* or with the column zero, starts at column 1 and ends at column 2: an issue
\* at line 42 without column has the range {42,1} to {42,2}.
C16_ColumnDefault ==
  StructuredPath =>
    /\ \A i \in 1..Len(ParsedDiagnostics) :
         /\ ParsedDiagnostics[i].Location.Range.End.Line
              = ParsedDiagnostics[i].Location.Range.Start.Line
         /\ ParsedDiagnostics[i].Location.Range.End.Column
              = ParsedDiagnostics[i].Location.Range.Start.Column + 1
         /\ DecodedResponse.val.Issues[i].Column = 0 =>
              /\ ParsedDiagnostics[i].Location.Range.Start.Column = 1
              /\ ParsedDiagnostics[i].Location.Range.End.Column = 2
    /\ \A column \in {"", "0"}, severity \in SeverityValues \ {"3"} :
         responseText =
           ResponseText("\"ok\"", <<IssueText("\"a.js\"", "42", column, severity, "\"m\"", "")>>)
         => /\ Len(ParsedDiagnostics) = 1
            /\ ParsedDiagnostics[1].Location.Range.Start = Position(42, 1)
            /\ ParsedDiagnostics[1].Location.Range.End = Position(42, 2)

\* C16, witness: ParseAIResponse has returned the range {42,1} to {42,2} for
\* an issue at line 42 without column.
C16_Witness ==
  /\ parsed # <<>>
  /\ responseText =
       ResponseText("\"ok\"", <<IssueText("\"a.js\"", "42", "", "\"low\"", "\"m\"", "")>>)
  /\ Len(ParsedDiagnostics) = 1
  /\ ParsedDiagnostics[1].Location.Range = [Start |-> Position(42, 1), End |-> Position(42, 2)]

\* The spellings in SeverityAlphabet of the words that fold to ERROR,
\* CRITICAL or HIGH, and of those that fold to WARNING, WARN or MEDIUM.
ErrorWords == {"ERROR", "error", "Critical", "high"}
WarningWords == {"WARNING", "warning", "WARN", "warn", "medium"}

\* C17: normalizeSeverity returns for every severity, and what it returns is
\* ERROR when the severity, without the whitespace around it and in upper
\* case, is ERROR, CRITICAL or HIGH, WARNING when it is WARNING, WARN or
\* MEDIUM, and INFO for INFO, INFORMATION, LOW, NOTE and everything else,
\* the empty string included.
C17_SeverityTable ==
  (mainpc = "severity" /\ output # <<>>) =>
    output[1] =
      IF Len(TrimSpace(input)) = 1 /\ TrimSpace(input)[1] \in ErrorWords
        THEN <<"ERROR">>
      ELSE IF Len(TrimSpace(input)) = 1 /\ TrimSpace(input)[1] \in WarningWords
        THEN <<"WARNING">>
      ELSE <<"INFO">>

\* C17, witness: normalizeSeverity has returned WARNING for "medium" with a
\* space before it.
C17_Witness ==
  /\ mainpc = "severity"
  /\ input = <<SP, "medium">>
  /\ output # <<>>
  /\ output[1] = <<"WARNING">>

\* C18: normalizeSeverity of what normalizeSeverity returned is the same
\* severity, and ERROR, WARNING and INFO are returned as they are.
C18_SeverityIdempotent ==
  mainpc = "severity" =>
    /\ Len(output) = 2 => output[2] = output[1]
    /\ (output # <<>> /\ input \in Canonical) => output[1] = input

\* C18, witness: normalizeSeverity was called on "high" and then on the
\* ERROR it returned.
C18_Witness ==
  /\ mainpc = "severity"
  /\ input = <<"high">>
  /\ output = <<<<"ERROR">>, <<"ERROR">>>>

\* The prompt from its k-th token from the end, n tokens long.
FromEnd(prompt, k, n) ==
  SubSeq(prompt, Len(prompt) - k + 1, Len(prompt) - k + n)

\* C19: the prompt GenerateUserPrompt returns ends with the instructions;
\* before them stands the closing of the diff fence, before that the diff of
\* the request, token for token, before that the opening of the fence, and
\* what is before the fence is the opening line alone or the opening line
\* and a context that starts with its heading.
C19_PromptOrder ==
  (mainpc = "prompt" /\ output # <<>>) =>
    /\ Len(output[1]) >= 3 + 5 + Len(input.GitDiff) + 4 + 21
    /\ FromEnd(output[1], 21, 21) = ReviewInstructions
    /\ FromEnd(output[1], 25, 4) = <<NL, Fence, NL, NL>>
    /\ FromEnd(output[1], 25 + Len(input.GitDiff), Len(input.GitDiff)) = input.GitDiff
    /\ FromEnd(output[1], 30 + Len(input.GitDiff), 5) = <<"**Git Diff:**", NL, Fence, "diff", NL>>
    /\ SubSeq(output[1], 1, 3) = UserPromptOpening
    /\ \/ Len(output[1]) = 3 + 30 + Len(input.GitDiff)
       \/ output[1][4] = ContextHeading

\* C19, witness: a prompt was made of a diff that starts with a newline and
\* holds a fence, for a request with a GitInfo.
C19_Witness ==
  /\ mainpc = "prompt"
  /\ input.GitDiff = <<NL, Fence, "+">>
  /\ input.GitInfo # <<>>
  /\ output # <<>>

\* What the prompt holds before the fence of the diff.
BeforeDiff == SubSeq(output[1], 1, IndexFrom(output[1], {"**Git Diff:**"}, 1) - 1)

\* The value of a field of the request's GitInfo, "" when there is none.
GitInfoField(field) ==
  IF input.GitInfo = <<>> THEN <<>> ELSE input.GitInfo[1][field]

\* The label stands before the diff exactly when the value is not "", and
\* then once, followed by the value and a newline.
LabelIffValue(label, value) ==
  /\ (\E i \in 1..Len(BeforeDiff) : BeforeDiff[i] = label) <=> value # <<>>
  /\ \A i \in 1..Len(BeforeDiff) : BeforeDiff[i] = label =>
       /\ SubSeq(BeforeDiff, i + 1, i + Len(value) + 1) = value \o <<NL>>
       /\ \A j \in 1..Len(BeforeDiff) : BeforeDiff[j] = label => j = i

\* C20: before the diff, the prompt has the line of the repository, of the
\* branch and of the PR number exactly when the request's GitInfo has a
\* value for it, each with its value; a request without GitInfo, or with
\* none of the three values, gets none of the three labels.  (The heading
\* of the context is there exactly when the request has a GitInfo.)
C20_LabelsIffValues ==
  (mainpc = "prompt" /\ output # <<>>) =>
    /\ LabelIffValue(RepositoryLabel, GitInfoField("RepoURL"))
    /\ LabelIffValue(BranchLabel, GitInfoField("BranchName"))
    /\ LabelIffValue(PRNumberLabel, GitInfoField("PRNumber"))
    /\ (\E i \in 1..Len(BeforeDiff) : BeforeDiff[i] = ContextHeading)
         <=> input.GitInfo # <<>>

\* C20, witness: a prompt was made for a request with a branch and no
\* repository, whose diff holds the label of a branch.
C20_Witness ==
  /\ mainpc = "prompt"
  /\ output # <<>>
  /\ input.GitInfo # <<>>
  /\ GitInfoField("BranchName") = <<"main">>
  /\ GitInfoField("RepoURL") = <<>>
  /\ input.GitDiff = <<BranchLabel, "x">>

\* The message of main when no provider is registered.
NoProvidersMessage == <<"No AI providers configured. Please set at least one API key.">>

\* No provider key is configured.
NoProviderKey ==
  cfg.GoogleAPIKey = "" /\ cfg.OpenAIAPIKey = "" /\ cfg.AnthropicAPIKey = ""

\* Main is past the registration of the providers.
PastRegistration == mainpc \in {"check", "listen", "serving"}

C23_FallbackOrStatus500 ==
  \A h \in Runs :
    (h.provider # "" /\ h.provider \notin DOMAIN providerRegistry) =>
      \/ h.vendorCalls > 0
      \/ /\ h.pc = "done"
         /\ Len(h.responses) = 1
         /\ h.responses[1].status = 500

\* The models a vendor lists.
Supported(vendor) ==
  CASE vendor = "google" ->
         {"gemini-2.0-flash", "gemini-1.5-pro", "gemini-1.5-flash", "gemini-pro"}
    [] vendor = "openai" -> {"gpt-4", "gpt-4-turbo", "gpt-4o", "gpt-3.5-turbo"}
    [] vendor = "anthropic" ->
         { "claude-3-5-sonnet-20241022", "claude-3-opus-20240229",
           "claude-3-sonnet-20240229", "claude-3-haiku-20240307" }

\* C28: every vendor call of a HandleReview names a model; the call for a
\* request without model names the DefaultModel of the configuration,
\* whichever the provider and whether or not the provider lists that model,
\* and the call for a request with a model names that model.
C28_ConfiguredDefaultModel ==
  /\ \A h \in Runs : h.pc = "inflight" => h.call.model # ""
  /\ Serving =>
       \A r \in HTTPRequests :
         HandleReviewToCall(r, cfg, providerRegistry).pc = "inflight" =>
           /\ HandleReviewToCall(r, cfg, providerRegistry).call.model # ""
           /\ HandleReviewToCall(r, cfg, providerRegistry).call.model =
                IF r.json[1].AIModel = "" THEN cfg.DefaultModel
                ELSE r.json[1].AIModel
           /\ HandleReviewToCall(r, cfg, providerRegistry).call.vendor =
                IF r.json[1].AIProvider = "" THEN cfg.DefaultProvider
                ELSE r.json[1].AIProvider

\* C28, witness: the vendor call of a request for openai without model is in
\* flight with the configured default gemini-2.0-flash, which OpenAI does not
\* list and which is not the gpt-4o of the provider.
C28_Witness ==
  /\ cfg.DefaultModel = "gemini-2.0-flash"
  /\ \E h \in Runs :
       /\ h.pc = "inflight"
       /\ h.call.vendor = "openai"
       /\ h.call.model = "gemini-2.0-flash"
       /\ h.call.model \notin Supported("openai")

\* The call that a step of the Registry on its own has made.
LastCall == registryCalls'[Len(registryCalls')]

\* C30: a Register changes the entry of its name to its provider and leaves
\* every other entry as it was; a Get and a List leave the registry as it
\* was; no call removes a name.
C30_RegistryFootprint ==
  [][ mainpc = "registry" =>
        /\ DOMAIN providerRegistry \subseteq DOMAIN providerRegistry'
        /\ LastCall.op \in {"Get", "List"} => providerRegistry' = providerRegistry
        /\ LastCall.op = "Register" =>
             /\ DOMAIN providerRegistry' = DOMAIN providerRegistry \cup {LastCall.name}
             /\ providerRegistry'[LastCall.name] = LastCall.provider[1]
             /\ \A n \in DOMAIN providerRegistry \ {LastCall.name} :
                  providerRegistry'[n] = providerRegistry[n] ]_vars

\* C30, witness: two names were registered with two providers, a third name
\* was looked up, and both entries are in the registry as they were
\* registered.
C30_Witness ==
  /\ mainpc = "registry"
  /\ Len(registryCalls) = 3
  /\ registryCalls[1] = RegisterCall("google", NewGeminiProvider("g-key"))
  /\ registryCalls[2] = RegisterCall("openai", NewOpenAIProvider("o-key"))
  /\ registryCalls[3].op = "Get"
  /\ registryCalls[3].name = "azure"
  /\ DOMAIN providerRegistry = {"google", "openai"}
  /\ providerRegistry["google"] = NewGeminiProvider("g-key")
  /\ providerRegistry["openai"] = NewOpenAIProvider("o-key")

\* The frames of the calls of ParseAIResponse that have extracted.
Extracted ==
  { i \in 1..Len(output) :
      output[i].fn = "ParseAIResponse" /\ output[i].pc # "start" }

\* The frames of the calls of ParseAIResponse that have returned.
Returned ==
  { i \in 1..Len(output) :
      output[i].fn = "ParseAIResponse" /\ output[i].pc = "returned" }

\* From i to c, t is the span of the raw heuristic: from the first '{' to
\* the last '}', with an "overview" and then an "issues" between them.
RawSpan(t, i, c) ==
  /\ t[i] = "{"
  /\ t[c] = "}"
  /\ \A j \in 1..(i - 1) : t[j] # "{"
  /\ \A j \in (c + 1)..Len(t) : t[j] # "}"
  /\ \E a \in (i + 1)..(c - 1), b \in (i + 1)..(c - 1) :
       a < b /\ t[a] = "\"overview\"" /\ t[b] = "\"issues\""

\* The response in a fence label, with the issues given, decoded from a
\* text whose candidate it is: the overview "ok" and a Diagnostic for each
\* issue.
FencedResult(ret, n) ==
  /\ ret.err = NoError
  /\ ret.result # <<>>
  /\ ret.result[1].Overview = <<"ok">>
  /\ Len(ret.result[1].Diagnostics) = n
  /\ \A k \in 1..n :
       /\ ret.result[1].Diagnostics[k].Location.Path = <<"a.js">>
       /\ ret.result[1].Diagnostics[k].Location.Range.Start.Line = 42
       /\ ret.result[1].Diagnostics[k].Message = <<"m">>

\* C24: the candidate of extractJSON is the body of the first fenced block
\* that is unlabelled or labelled json and holds {...}, whatever stands
\* before and after it, raw JSON included; in a text with no pair of fences
\* it is the span of the raw heuristic if there is one, and the text itself
\* otherwise.  A response in such a fence, among prose, comes back with its
\* overview and its issues.
C24_ExtractPriority ==
  mainpc = "calls" =>
    /\ \A i \in Extracted :
         /\ \A pre \in Preambles, label \in FenceLabels, body \in FencedBodies,
               post \in Postambles :
              output[i].arg = pre \o Fenced(label, body) \o post =>
                output[i].jsonStr = body
         /\ Cardinality({ j \in 1..Len(output[i].arg) : output[i].arg[j] = Fence }) <= 1 =>
              /\ \A a \in 1..Len(output[i].arg), c \in 1..Len(output[i].arg) :
                   RawSpan(output[i].arg, a, c) =>
                     output[i].jsonStr = SubSeq(output[i].arg, a, c)
              /\ (\A a \in 1..Len(output[i].arg), c \in 1..Len(output[i].arg) :
                    ~RawSpan(output[i].arg, a, c)) =>
                   output[i].jsonStr = output[i].arg
    /\ \A i \in Returned :
         \A pre \in Preambles, label \in FenceLabels, post \in Postambles :
           /\ output[i].arg = pre \o Fenced(label, ResponseText("\"ok\"", <<>>)) \o post =>
                FencedResult(output[i].ret[1], 0)
           /\ output[i].arg =
                pre \o Fenced(label, ResponseText("\"ok\"",
                        <<IssueText("\"a.js\"", "42", "", "\"high\"", "\"m\"", "")>>)) \o post =>
                FencedResult(output[i].ret[1], 1)

\* C24, witness: a response in a json fence, with prose before it and
\* another response after it, came back with its own overview.
C24_Witness ==
  /\ mainpc = "calls"
  /\ Len(output) = 1
  /\ output[1].pc = "returned"
  /\ output[1].arg =
       <<"LGTM", NL>> \o Fenced(<<JsonLabel>>, ResponseText("\"ok\"", <<>>))
         \o <<NL>> \o ResponseText("\"m\"", <<>>)
  /\ output[1].jsonStr = ResponseText("\"ok\"", <<>>)
  /\ output[1].ret[1].result[1].Overview = <<"ok">>

\* The frames of the calls of ParseAIResponse.
ParseFrames == { i \in 1..Len(output) : output[i].fn = "ParseAIResponse" }

\* How often stage occurs in stages.
Times(stages, stage) == Cardinality({ k \in 1..Len(stages) : stages[k] = stage })

\* C25: a call of ParseAIResponse runs extractJSON, then json.Unmarshal,
\* then one of two: parseUnstructuredResponse when json.Unmarshal returned
\* an error, and only then; the conversion when it returned none, and then
\* the overview is the decoded one and there is a Diagnostic for each
\* decoded issue.
C25_StagesInOrder ==
  mainpc = "calls" =>
    \A i \in ParseFrames :
      /\ output[i].pc = "start" <=> output[i].stages = <<>>
      /\ output[i].pc = "unmarshal" <=> output[i].stages = <<"extractJSON">>
      /\ output[i].pc \in {"convert", "fallback"} <=>
           output[i].stages = <<"extractJSON", "json.Unmarshal">>
      /\ output[i].pc = "convert" => output[i].rawResponse[1].ok
      /\ output[i].pc = "fallback" => ~output[i].rawResponse[1].ok
      /\ output[i].pc = "returned" =>
           IF output[i].rawResponse[1].ok
             THEN /\ output[i].stages = <<"extractJSON", "json.Unmarshal", "convert">>
                  /\ output[i].ret[1].result[1].Overview
                       = output[i].rawResponse[1].val.Overview
                  /\ Len(output[i].ret[1].result[1].Diagnostics)
                       = Len(output[i].rawResponse[1].val.Issues)
                  /\ \A k \in 1..Len(output[i].ret[1].result[1].Diagnostics) :
                       output[i].ret[1].result[1].Diagnostics[k].Location.Path
                         = output[i].rawResponse[1].val.Issues[k].File
             ELSE output[i].stages =
                    <<"extractJSON", "json.Unmarshal", "parseUnstructuredResponse">>

\* C25, witness: a response without issues, followed by a line with the
\* file and line pattern, was decoded and came back without Diagnostic.
C25_Witness ==
  /\ mainpc = "calls"
  /\ Len(output) = 1
  /\ output[1].pc = "returned"
  /\ output[1].arg = ResponseText("\"ok\"", <<>>) \o <<NL>> \o TextFileLine
  /\ output[1].stages = <<"extractJSON", "json.Unmarshal", "convert">>
  /\ output[1].ret[1].result[1].Diagnostics = <<>>

\* The bodies of FencedBodies that json.Unmarshal refuses.
RefusedBodies ==
  { <<"{", "\"overview\"", ":", "}">>,
    <<"{", "\"overview\"", ":", "3", ",", "\"issues\"", ":", "[", "]", "}">> }

\* C29: a call of ParseAIResponse runs extractJSON once and json.Unmarshal
\* once at most; when the fenced block of the text does not decode, the call
\* has decoded that block and nothing else and has then run
\* parseUnstructuredResponse, also when the text holds a response outside the
\* block, whose overview the result does not have.
C29_OneDecodeAttempt ==
  mainpc = "calls" =>
    \A i \in ParseFrames :
      /\ Times(output[i].stages, "extractJSON") <= 1
      /\ Times(output[i].stages, "json.Unmarshal") <= 1
      /\ output[i].pc = "returned" =>
           \A pre \in Preambles, label \in FenceLabels, body \in RefusedBodies,
              post \in Postambles :
             output[i].arg = pre \o Fenced(label, body) \o post =>
               /\ output[i].jsonStr = body
               /\ output[i].stages =
                    <<"extractJSON", "json.Unmarshal", "parseUnstructuredResponse">>
               /\ output[i].ret[1].result[1].Overview # <<"m">>
               /\ \A k \in 1..Len(output[i].ret[1].result[1].Diagnostics) :
                    output[i].ret[1].result[1].Diagnostics[k].Code.Value = <<"ai-review">>

\* C29, witness: a fenced block that does not decode, followed by a response
\* that does, went to parseUnstructuredResponse.
C29_Witness ==
  /\ mainpc = "calls"
  /\ Len(output) = 1
  /\ output[1].pc = "returned"
  /\ output[1].arg =
       Fenced(<<JsonLabel>>, <<"{", "\"overview\"", ":", "}">>)
         \o <<NL>> \o ResponseText("\"m\"", <<>>)
  /\ output[1].stages = <<"extractJSON", "json.Unmarshal", "parseUnstructuredResponse">>
  /\ Unmarshal(ResponseText("\"m\"", <<>>)).ok

\* What a call returns when it runs alone, from its start to its end.
Alone(call) ==
  CASE call.fn = "ParseAIResponse" -> ParseAIResponse(call.arg)
    [] call.fn = "GenerateSystemPrompt" -> GenerateSystemPrompt(call.arg)
    [] call.fn = "GenerateUserPrompt" -> GenerateUserPrompt(call.arg)

\* C21: whatever the interleaving of the statements of two calls of
\* GenerateSystemPrompt, GenerateUserPrompt and ParseAIResponse, a call
\* returns what it returns alone, two calls of one function with one
\* argument return the same, the argument of a call stays as it was passed,
\* and a statement of one call changes the frame of that call and nothing
\* else.
C21_PureAndReentrant ==
  /\ [](mainpc = "calls" =>
          /\ \A i \in 1..Len(output) :
               /\ output[i].arg = input[i].arg
               /\ output[i].pc = "returned" => output[i].ret = <<Alone(input[i])>>
          /\ \A i \in 1..Len(output), j \in 1..Len(output) :
               (input[i] = input[j] /\ output[i].pc = "returned"
                  /\ output[j].pc = "returned") => output[i].ret = output[j].ret)
  /\ [][mainpc = "calls" =>
          /\ \E i \in 1..Len(output) :
               \A j \in 1..Len(output) \ {i} : output'[j] = output[j]
          /\ UNCHANGED <<mainpc, cfg, providerRegistry, handlers, registryCalls,
                         responseText, parsed, input, fatal>>]_vars

\* C21, witness: two calls of ParseAIResponse on two texts are under way at
\* once; one has returned and the other has extracted its own candidate.
C21_Witness ==
  /\ mainpc = "calls"
  /\ Len(output) = 2
  /\ input[1] = Call("ParseAIResponse", TextFenced)
  /\ input[2] = Call("ParseAIResponse", TextMalformed)
  /\ output[1].pc = "unmarshal"
  /\ output[2].pc = "returned"
  /\ output[1].jsonStr # output[2].jsonStr

\* ParseAIResponse has returned from parseUnstructuredResponse.
FallbackPath == parsed # <<>> /\ HasResult(parsed[1]) /\ ~DecodedResponse.ok

\* The path stands in t after a file marker and the whitespace after it.
AfterFileMarker(t, path) ==
  \E i \in 1..Len(t) :
    /\ t[i] \in FileMarker
    /\ SubSeq(t, SkipWS(t, i + 1), SkipWS(t, i + 1) + Len(path) - 1) = path

\* The line is the number that stands in t after a line marker.
AfterLineMarker(t, line) ==
  \E i \in 1..Len(t), d \in 1..Len(t) :
    /\ t[i] \in LineMarker
    /\ d > i
    /\ \A k \in (i + 1)..(d - 1) : t[k] \in WS
    /\ t[d] \in NumberLit
    /\ line = Atoi(t[d])

\* The message is the trimmed text from a to the end of its line, after a
\* '-' or ':' and whitespace.
TrailingText(t, message) ==
  \E s \in 1..Len(t), a \in 1..Len(t) :
    /\ t[s] \in SepTok
    /\ a > s
    /\ \A k \in (s + 1)..(a - 1) : t[k] \in WS
    /\ message = TrimSpace(SubSeq(t, a, IndexFrom(t, {NL}, a) - 1))

\* C26: every Diagnostic that parseUnstructuredResponse makes has the
\* severity INFO, the code "ai-review", the columns 1 and 2 on the line whose
\* number follows a line marker, the path that follows a file marker, and
\* as its message the trimmed text that ends a line; the text "File: <path>
\* Line: <n> - <message>" gives one Diagnostic, with that path, line and
\* message.
C26_FallbackDiagnostics ==
  FallbackPath =>
    /\ \A k \in 1..Len(ParsedDiagnostics) :
         /\ ParsedDiagnostics[k].Severity = <<"INFO">>
         /\ ParsedDiagnostics[k].Code.Value = <<"ai-review">>
         /\ ParsedDiagnostics[k].Location.Range.Start.Column = 1
         /\ ParsedDiagnostics[k].Location.Range.End.Column = 2
         /\ ParsedDiagnostics[k].Location.Range.End.Line
              = ParsedDiagnostics[k].Location.Range.Start.Line
         /\ AfterLineMarker(responseText, ParsedDiagnostics[k].Location.Range.Start.Line)
         /\ ParsedDiagnostics[k].Location.Path # <<>>
         /\ \A x \in 1..Len(ParsedDiagnostics[k].Location.Path) :
              ParsedDiagnostics[k].Location.Path[x] \notin WS
         /\ AfterFileMarker(responseText, ParsedDiagnostics[k].Location.Path)
         /\ TrailingText(responseText, ParsedDiagnostics[k].Message)
    /\ \A path \in {"app.py", "Summary"}, n \in IntLit,
          message \in {<<"missing", SP, "check">>, <<"LGTM", SP>>} :
         responseText = <<"File:", SP, path, SP, "Line:", SP, n, SP, "-", SP>> \o message =>
           /\ Len(ParsedDiagnostics) = 1
           /\ ParsedDiagnostics[1].Location.Path = <<path>>
           /\ ParsedDiagnostics[1].Location.Range.Start = [Line |-> Atoi(n), Column |-> 1]
           /\ ParsedDiagnostics[1].Location.Range.End = [Line |-> Atoi(n), Column |-> 2]
           /\ ParsedDiagnostics[1].Message = TrimSpace(message)
           /\ ParsedDiagnostics[1].Severity = <<"INFO">>

\* C26, witness: "File: app.py Line: 10 - missing check" came back with
\* one Diagnostic.
C26_Witness ==
  /\ FallbackPath
  /\ responseText = TextFileLine
  /\ Len(ParsedDiagnostics) = 1
  /\ ParsedDiagnostics[1].Location.Path = <<"app.py">>
  /\ ParsedDiagnostics[1].Location.Range.Start.Line = 10
  /\ ParsedDiagnostics[1].Message = <<"missing", SP, "check">>

\* The line of t that starts at a, trimmed.
TrimmedLine(t, a) == TrimSpace(SubSeq(t, a, IndexFrom(t, {NL}, a) - 1))

\* A line of t starts at a, and trimmed it is neither empty nor a heading.
OverviewLine(t, a) ==
  /\ a = 1 \/ t[a - 1] = NL
  /\ TrimmedLine(t, a) # <<>>
  /\ TrimmedLine(t, a)[1] \notin {"#", "##"}

\* C27: when parseUnstructuredResponse has made no Diagnostic, the overview
\* is the first line of the text that, trimmed, is neither empty nor starts
\* with '#', as trimmed; it is "AI code review completed" when the text has
\* no such line.
C27_FallbackOverview ==
  (FallbackPath /\ Len(ParsedDiagnostics) = 0) =>
    /\ \A a \in 1..Len(responseText) :
         (OverviewLine(responseText, a)
            /\ \A b \in 1..(a - 1) : ~OverviewLine(responseText, b)) =>
           parsed[1].result[1].Overview = TrimmedLine(responseText, a)
    /\ (\A a \in 1..Len(responseText) : ~OverviewLine(responseText, a)) =>
         parsed[1].result[1].Overview
           = <<"AI", SP, "code", SP, "review", SP, "completed">>

\* C27, witness: a text of a heading, a blank line and an indented line
\* came back with that line, trimmed, as its overview.
C27_Witness ==
  /\ FallbackPath
  /\ responseText = <<"#", NL, SP>> \o <<NL, SP, "Summary", SP>>
  /\ Len(ParsedDiagnostics) = 0
  /\ parsed[1].result[1].Overview = <<"Summary">>

====
